---- MODULE Spec2Model ----
(***************************************************************************)
(* A model of scripts/importExcelSignals.py: the conversion of signal      *)
(* cards (movement-group x interval state grids and operating periods)     *)
(* into phases and time plans.                                             *)
(*                                                                         *)
(* Durations are floats in the source.  They are modelled as naturals      *)
(* counting half seconds (47.0 s = 94, 3.5 s = 7), so every sum the source *)
(* computes on the documented example is exact here as it is in binary     *)
(* floating point.  Times of day are minutes after midnight                *)
(* (dta.Time(23,59) = 1439).                                               *)
(***************************************************************************)
EXTENDS Integers, Sequences, FiniteSets, TLC

VARIABLES
  \* ---- SignalData.getPhases, one loop iteration at a time
  phasingData,     \* self.phasingData: movement group -> sequence of "G"/"Y"/"R"
  timeIntervals,   \* selectCSO(...).times
  timeIndex,       \* number of loop iterations done
  pPhase,          \* the accumulator dict: <<>> for {}, <<phase>> once seeded
  phases,          \* the list returned
  branch,          \* which branch of the loop body the last iteration took
  walk,            \* "idle" | "walking" | "returned" | "NameError"
  spans,           \* per phase dict created, in order: the intervals it has taken
  \* ---- the module-level selectCSO
  signalTiming,    \* excelCard.signalTiming.values(), in iteration order
  startTime,       \* the query start time
  endTime,         \* the query end time
  selected,        \* what the call returned: an index into signalTiming, 0 for None
  selCalls,        \* number of calls made
  returned,        \* per call made: the card before, the period returned, the card after
  \* ---- the batch loop of __main__
  START_TIME,      \* sys.argv[4]
  END_TIME,        \* sys.argv[5]
  pos,             \* number of directory entries the loop has taken
  mappedNodes,     \* the registry: iiName -> node id
  cardNodes,       \* mappedNodeId of every card parsed so far, in order (0: "")
  cardsDone,       \* len(cardsDone)
  cardsWithMove,   \* len(cardsWithMove)
  allPlansSet,     \* len(allPlansSet)
  allMoreMatchesSet, \* len(allMoreMatchesSet)
  last,            \* what the last iteration did with its file
  run,             \* "idle" | "running" | "finished" | "crashed"
  \* ---- parseExcelCardFile and a call of getPhases on the card it returns
  sheet,           \* the first sheet of the workbook
  sd,              \* the SignalData returned, or the error raised
  parsePc,         \* "idle" | "reading" | "parsed" | "ParsingCardError" | "walked" | "AttributeError"
  walked,          \* what the call of getPhases did
  \* ---- groupMovementToTurnType and getDirections on one movement-group label
  gMovName,        \* the label, a sequence of characters
  addRightToThru,  \* the keyword argument of groupMovementToTurnType
  turnItems,       \* indicators.items() of groupMovementToTurnType, in iteration order
  dirItems,        \* indicators.items() of getDirections, in iteration order
  turnCall,        \* groupMovementToTurnType: keys done, result, thruadded, movadded
  dirCall,         \* getDirections: keys done, result
  \* ---- setTimes of getOperationTimes on one row of the operating-times table
  cellRow,         \* the non-phase cells of the row, left to right
  dayCells,        \* the cells three and two columns left of the cycle column
  isWeekdayPlan,   \* what checkForWeekdayPlan answers for the row
  curColumn,       \* number of cells the loop has taken
  opTimes,         \* signalTiming[strCso] start and end, the flags of setTimes, the error raised
  \* ---- the start of __main__
  argc,            \* len(sys.argv) - 1: the arguments after the script name
  mainPc,          \* "idle" | "start" | "exited" | "arguments" | "network"
  exitCode,        \* the code given to sys.exit, -1 while the process has not exited
  printed,         \* what was printed to the console
  overrides,       \* whether MOVEMENT_TURN_OVERRIDES is a list of files (None otherwise)
  \* ---- fillPhaseInfo on one row of the phasing table, one loop iteration at a time
  phaseInfo,       \* the list, filled in place
  fillCall,        \* which call, which loop, the loop index i (from 0 as in the source)
  fillHistory,     \* the list as read, and as the first call left it
  \* ---- the rows of the signal interval and operation times sections, one at a time
  timingTable,     \* signalData.signalTiming, in the order the dict iterates
  lastRead,        \* the timing row read last and what came of it
  opTarget,        \* the operation times row read last and the period it was applied to
  rowPc,           \* "intervals", "operations", or the exception that escaped
  rowsRead         \* rows read so far

phaseVars == <<phasingData, timeIntervals, timeIndex, pPhase, phases, branch, walk, spans>>

selectVars == <<signalTiming, startTime, endTime, selected, selCalls, returned>>

batchVars == <<START_TIME, END_TIME, pos, mappedNodes, cardNodes, cardsDone,
               cardsWithMove, allPlansSet, allMoreMatchesSet, last, run>>

parseVars == <<sheet, sd, parsePc, walked>>

labelVars == <<gMovName, addRightToThru, turnItems, dirItems, turnCall, dirCall>>

cellVars == <<cellRow, dayCells, isWeekdayPlan, curColumn, opTimes>>

mainVars == <<argc, mainPc, exitCode, printed, overrides>>

fillVars == <<phaseInfo, fillCall, fillHistory>>

rowVars == <<timingTable, lastRead, opTarget, rowPc, rowsRead>>

helperVars == <<labelVars, cellVars, mainVars, fillVars, rowVars>>

vars == <<phaseVars, selectVars, batchVars, parseVars, helperVars>>

-----------------------------------------------------------------------------
(* Bounds and input sets *)

MaxN == 3

MaxPeriods == 3

MaxFiles == 3

MaxCardN == 2

MaxCardPeriods == 2

MaxSheetPeriods == 2

MaxSheetRows == 2

MaxSheetTimes == 2

MaxCalls == 2

\* 0:00, 7:00, 19:00 and 23:59
Times == {0, 420, 1140, 1439}

Groups == {"MAIN EB", "CROSS NB"}

States == {"G", "Y", "R"}

Durs == {1, 2}

Min(a, b) == IF a < b THEN a ELSE b

RECURSIVE SumSeq(_)
SumSeq(s) == IF s = <<>> THEN 0 ELSE s[1] + SumSeq(Tail(s))

-----------------------------------------------------------------------------
(* SignalData.getPhases *)

cGreenMovs(pd, t) == {gMov \in DOMAIN pd : pd[gMov][t] = "G"}

cYellowMovs(pd, t) == {gMov \in DOMAIN pd : pd[gMov][t] = "Y"}

cRedMovs(pd, t) == {gMov \in DOMAIN pd : pd[gMov][t] = "R"}

\* the number of movements of movs that are in pPhase["Movs"]
Matches(movs, p) == Cardinality(movs \cap p.Movs)

SeedGreen(movs, dur1) == [Movs |-> movs, green |-> dur1, yellow |-> 0, allRed |-> 0]

SeedYellow(movs, dur1) == [Movs |-> movs, green |-> 0, yellow |-> dur1, allRed |-> 0]

\* the if/elif chain of the loop body
\* mutant: the chain without "elif rMatches == len(pPhase["Movs"]) and not cGreenMovs"
BranchNoAllRed(p, cG, cY, gMatches, yMatches, rMatches) ==
  IF Cardinality(cG) + Cardinality(cY) > gMatches + yMatches THEN "superset"
  ELSE IF gMatches + yMatches = Cardinality(p.Movs) THEN "full"
  ELSE IF gMatches + yMatches < Cardinality(p.Movs) /\ gMatches + yMatches > 0 THEN "partial"
  ELSE IF rMatches = Cardinality(p.Movs) /\ cG # {} THEN "fresh"
  ELSE "fallback"

Branch(p, cG, cY, gMatches, yMatches, rMatches) ==
  IF Cardinality(cG) + Cardinality(cY) > gMatches + yMatches THEN "superset"
  ELSE IF gMatches + yMatches = Cardinality(p.Movs) THEN "full"
  ELSE IF gMatches + yMatches < Cardinality(p.Movs) /\ gMatches + yMatches > 0 THEN "partial"
  ELSE IF rMatches = Cardinality(p.Movs) /\ cG = {} THEN "allred"
  ELSE IF rMatches = Cardinality(p.Movs) /\ cG # {} THEN "fresh"
  ELSE "fallback"

\* mutant: a fold that never tells yellow from green
FoldPhaseNoYellow(p, yMatches, rMatches, dur1) ==
  IF rMatches > 0 THEN [p EXCEPT !.allRed = @ + dur1]
  ELSE [p EXCEPT !.green = @ + dur1]

FoldPhase(p, yMatches, rMatches, dur1) ==
  IF yMatches > 0 THEN [p EXCEPT !.yellow = @ + dur1]
  ELSE IF rMatches > 0 THEN [p EXCEPT !.allRed = @ + dur1]
  ELSE [p EXCEPT !.green = @ + dur1]

\* mutant: the partial branch without its yellow case
PartialPhaseGreen(cG, cY, yMatches, dur1) == SeedGreen(cG, dur1)

PartialPhase(cG, cY, yMatches, dur1) ==
  IF yMatches = 0 THEN SeedGreen(cG, dur1) ELSE SeedYellow(cY, dur1)

\* mutant: the all-red continuation booked as yellow
ContinueRedAsYellow(p, dur1) == [p EXCEPT !.yellow = @ + dur1]

ContinueRed(p, dur1) == [p EXCEPT !.allRed = @ + dur1]

ClosePhase(st, b, newPhase) ==
  [st EXCEPT !.phases = Append(@, st.pPhase[1]), !.pPhase = <<newPhase>>, !.branch = b]

KeepPhase(st, b, p) == [st EXCEPT !.pPhase = <<p>>, !.branch = b]

\* "if timeIndex1 == lastIndex: phases.append(pPhase)"
LastPush(st, t, lastIndex) ==
  IF t = lastIndex /\ ~st.raised THEN [st EXCEPT !.phases = Append(@, st.pPhase[1])] ELSE st

\* One iteration of the loop for interval t with duration dur1.
\* st = [pPhase, phases, branch, raised]
Interval(st, pd, t, dur1, lastIndex) ==
  LET cG == cGreenMovs(pd, t)
      cY == cYellowMovs(pd, t)
      cR == cRedMovs(pd, t)
  IN IF st.pPhase = <<>>
     THEN \* seed and "continue": the last-index test is skipped
          [st EXCEPT !.pPhase = <<SeedGreen(cG, dur1)>>, !.branch = "seed"]
     ELSE LET p == st.pPhase[1]
              gM == Matches(cG, p)
              yM == Matches(cY, p)
              rM == Matches(cR, p)
              b == Branch(p, cG, cY, gM, yM, rM)
              body ==
                CASE b = "superset" -> ClosePhase(st, b, SeedGreen(cG, dur1))
                  [] b = "full"     -> KeepPhase(st, b, FoldPhase(p, yM, rM, dur1))
                  [] b = "partial"  -> ClosePhase(st, b, PartialPhase(cG, cY, yM, dur1))
                  [] b = "allred"   -> KeepPhase(st, b, ContinueRed(p, dur1))
                  [] b = "fresh"    -> ClosePhase(st, b, SeedGreen(cG, dur1))
                  \* phases.append(pPhase); pPhase = {}; then the read of the
                  \* undefined name cActiveMovs raises NameError
                  [] OTHER          -> [st EXCEPT !.phases = Append(@, st.pPhase[1]),
                                                  !.pPhase = <<>>, !.branch = b,
                                                  !.raised = TRUE]
          IN LastPush(body, t, lastIndex)

WalkStart == [pPhase |-> <<>>, phases |-> <<>>, branch |-> "none", raised |-> FALSE]

NumIntervals(pd) == IF DOMAIN pd = {} THEN 0 ELSE Len(pd[CHOOSE gMov \in DOMAIN pd : TRUE])

\* izip(timeIndices, timeIntervals) stops at the shorter of the two
NumIterations(pd, times) == Min(NumIntervals(pd), Len(times))

RECURSIVE WalkFrom(_, _, _, _)
WalkFrom(st, pd, times, t) ==
  IF t > NumIterations(pd, times) \/ st.raised THEN st
  ELSE WalkFrom(Interval(st, pd, t, times[t], NumIntervals(pd)), pd, times, t + 1)

\* the whole call: [phases, raised]
getPhases(pd, times) == WalkFrom(WalkStart, pd, times, 1)

-----------------------------------------------------------------------------
(* getPhases as a state machine *)

Grids(groups, n) == [groups -> [1..n -> States]]

IdlePhases ==
  /\ phasingData = <<>>
  /\ timeIntervals = <<>>
  /\ timeIndex = 0
  /\ pPhase = <<>>
  /\ phases = <<>>
  /\ branch = "none"
  /\ walk = "idle"
  /\ spans = <<>>

IdleSelect ==
  /\ signalTiming = <<>>
  /\ startTime = 0
  /\ endTime = 0
  /\ selected = 0
  /\ selCalls = 0
  /\ returned = <<>>

NoFile == [file |-> "none"]

IdleBatch ==
  /\ START_TIME = 0
  /\ END_TIME = 0
  /\ pos = 0
  /\ mappedNodes = <<>>
  /\ cardNodes = <<>>
  /\ cardsDone = 0
  /\ cardsWithMove = 0
  /\ allPlansSet = 0
  /\ allMoreMatchesSet = 0
  /\ last = NoFile
  /\ run = "idle"

NoSheet == [layout |-> "none"]

NoCard == [error |-> "none"]

NoWalk == [query |-> 0]

IdleParse ==
  /\ sheet = NoSheet
  /\ sd = NoCard
  /\ parsePc = "idle"
  /\ walked = NoWalk

NoCall == [k |-> 0]

IdleLabel ==
  /\ gMovName = <<>>
  /\ addRightToThru = FALSE
  /\ turnItems = <<>>
  /\ dirItems = <<>>
  /\ turnCall = NoCall
  /\ dirCall = NoCall

NoTimes == [error |-> "idle"]

IdleCell ==
  /\ cellRow = <<>>
  /\ dayCells = <<>>
  /\ isWeekdayPlan = FALSE
  /\ curColumn = 0
  /\ opTimes = NoTimes

IdleMain ==
  /\ argc = 0
  /\ mainPc = "idle"
  /\ exitCode = -1
  /\ printed = ""
  /\ overrides = FALSE

IdleFill ==
  /\ phaseInfo = <<>>
  /\ fillCall = [loop |-> "idle"]
  /\ fillHistory = <<>>

IdleRows ==
  /\ timingTable = <<>>
  /\ lastRead = [raised |-> "idle"]
  /\ opTarget = [target |-> "idle"]
  /\ rowPc = "idle"
  /\ rowsRead = 0

IdleHelpers == IdleLabel /\ IdleCell /\ IdleMain /\ IdleFill /\ IdleRows

InitPhases ==
  /\ \E n \in 1..MaxN :
       /\ phasingData \in Grids(Groups, n)
       /\ timeIntervals \in [1..n -> Durs]
  /\ timeIndex = 0
  /\ pPhase = <<>>
  /\ phases = <<>>
  /\ branch = "none"
  /\ walk = "walking"
  /\ spans = <<>>
  /\ IdleSelect
  /\ IdleBatch
  /\ IdleParse
  /\ IdleHelpers

\* the branches that assign a new dict to pPhase
NewPhaseBranches == {"seed", "superset", "partial", "fresh", "fallback"}

\* interval t goes to a new phase dict or to the one in progress
TakeInterval(sp, b, t) ==
  IF b \in NewPhaseBranches THEN Append(sp, {t})
  ELSE [sp EXCEPT ![Len(sp)] = @ \cup {t}]

LoopBody ==
  /\ walk = "walking"
  /\ timeIndex < NumIterations(phasingData, timeIntervals)
  /\ LET st == Interval([pPhase |-> pPhase, phases |-> phases, branch |-> branch,
                         raised |-> FALSE],
                        phasingData, timeIndex + 1, timeIntervals[timeIndex + 1],
                        NumIntervals(phasingData))
     IN /\ pPhase' = st.pPhase
        /\ phases' = st.phases
        /\ branch' = st.branch
        /\ walk' = IF st.raised THEN "NameError" ELSE "walking"
        /\ spans' = TakeInterval(spans, st.branch, timeIndex + 1)
  /\ timeIndex' = timeIndex + 1
  /\ UNCHANGED <<phasingData, timeIntervals, selectVars, batchVars, parseVars, helperVars>>

Return ==
  /\ walk = "walking"
  /\ timeIndex = NumIterations(phasingData, timeIntervals)
  /\ walk' = "returned"
  /\ UNCHANGED <<phasingData, timeIntervals, timeIndex, pPhase, phases, branch, spans,
                 selectVars, batchVars, parseVars, helperVars>>

NextPhases == LoopBody \/ Return

SpecPhases == InitPhases /\ [][NextPhases]_vars

-----------------------------------------------------------------------------
(* Claims about getPhases *)

RECURSIVE SumPhases(_)
SumPhases(ps) ==
  IF ps = <<>> THEN 0
  ELSE ps[1].green + ps[1].yellow + ps[1].allRed + SumPhases(Tail(ps))

\* C1: for every filled grid with N >= 1 intervals and N durations, the
\* green + yellow + allRed of the returned phases sum to the sum of the N
\* interval durations.
C1_DurationsConserved ==
  walk = "returned" => SumPhases(phases) = SumSeq(timeIntervals)

UniformGrid(pd) ==
  \A gMov \in DOMAIN pd : \A t \in 1..NumIntervals(pd) : pd[gMov][t] = pd[gMov][1]

\* C2: when every movement group keeps one state over all N >= 1 intervals,
\* getPhases returns exactly one phase and its green is the sum of all
\* interval durations.
C2_UniformOnePhase ==
  (walk = "returned" /\ UniformGrid(phasingData)) =>
     (Len(phases) = 1 /\ phases[1].green = SumSeq(timeIntervals))

\* the movement groups GREEN or YELLOW in interval t
ActiveMovs(pd, t) == cGreenMovs(pd, t) \cup cYellowMovs(pd, t)

\* C16: for every filled grid with N >= 1 intervals (N = 1 included), getPhases
\* pushes the accumulator when it processes the last interval: the list
\* returned has at least one phase and its last phase includes the last
\* interval's duration.
C16_LastIntervalPushed ==
  walk = "returned" =>
     /\ Len(phases) >= 1
     /\ NumIterations(phasingData, timeIntervals) \in spans[Len(phases)]
     /\ phases[Len(phases)].green + phases[Len(phases)].yellow + phases[Len(phases)].allRed
          >= timeIntervals[NumIterations(phasingData, timeIntervals)]

\* C17: there is a filled grid with distinct labels and a duration list for
\* which the walk of getPhases reaches the final fallback branch.
C17_FallbackReachable ==
  walk = "walking" =>
    \E n \in 1..MaxN : \E pd \in Grids(Groups, n) : \E times \in [1..n -> Durs] :
       getPhases(pd, times).raised

\* C17 as the code has it: on a filled grid with distinct labels no iteration
\* takes the fallback branch, so the undefined name is never read.
C17_FallbackNeverTaken ==
  walk # "idle" => (branch # "fallback" /\ walk # "NameError")

\* an iteration went down the chain to the all-red test, the last one a
\* filled grid can reach, after a phase had been closed
C17_Witness ==
  walk = "returned" /\ branch = "allred" /\ Len(phases) >= 2

\* C18: when two consecutive intervals have the same set of GREEN or YELLOW
\* movement groups, getPhases folds both into the same phase: no phase
\* boundary is placed between them.
C18_SameActiveSamePhase ==
  (walk # "idle" /\ timeIndex >= 2
    /\ ActiveMovs(phasingData, timeIndex) = ActiveMovs(phasingData, timeIndex - 1)) =>
       branch \notin NewPhaseBranches

\* C19: the movement set of every phase returned is the set of the movement
\* groups that are GREEN or YELLOW in at least one interval folded into it.
C19_MovsAreActiveGroups ==
  walk = "returned" =>
     \A k \in 1..Len(phases) :
        phases[k].Movs = UNION {ActiveMovs(phasingData, t) : t \in spans[k]}

\* the case of the partial branch for the accumulator p and interval t: some
\* but not all of p's movements are GREEN or YELLOW, and none outside p is
PartialCase(p, pd, t) ==
  LET still == p.Movs \cap ActiveMovs(pd, t)
  IN /\ Cardinality(still) > 0
     /\ Cardinality(still) < Cardinality(p.Movs)
     /\ ActiveMovs(pd, t) \subseteq p.Movs

\* C20: in the partial case the current phase is closed and pushed and a new
\* one is started: with the interval's GREEN set and its duration as green if
\* none of the accumulator's movements is YELLOW in it, otherwise with its
\* YELLOW set and its duration as yellow and green 0.
C20_PartialClosesPhase ==
  [][ (/\ walk = "walking"
       /\ timeIndex < NumIterations(phasingData, timeIntervals)
       /\ pPhase # <<>>
       /\ PartialCase(pPhase[1], phasingData, timeIndex + 1)) =>
          LET t == timeIndex + 1
              d == timeIntervals[t]
          IN /\ Len(phases') > Len(phases)
             /\ phases'[Len(phases) + 1] = pPhase[1]
             /\ pPhase' = IF pPhase[1].Movs \cap cYellowMovs(phasingData, t) = {}
                          THEN << [Movs |-> cGreenMovs(phasingData, t), green |-> d,
                                   yellow |-> 0, allRed |-> 0] >>
                          ELSE << [Movs |-> cYellowMovs(phasingData, t), green |-> 0,
                                   yellow |-> d, allRed |-> 0] >> ]_vars

\* an iteration took the partial branch on a yellow of the accumulator
C20_Witness ==
  /\ walk = "walking"
  /\ branch = "partial"
  /\ pPhase[1].green = 0
  /\ pPhase[1].yellow > 0

\* the sums of durations that subsets of the intervals S can give
RECURSIVE SubsetSums(_, _)
SubsetSums(S, times) ==
  IF S = {} THEN {0}
  ELSE LET t == CHOOSE x \in S : TRUE
           rest == SubsetSums(S \ {t}, times)
       IN rest \cup {r + times[t] : r \in rest}

\* C21: in every phase returned for a filled grid with distinct labels, allRed
\* is the sum of durations only of intervals in which every movement group is
\* RED, and yellow is the sum of durations only of intervals in which at least
\* one movement group of the phase's movement set is YELLOW.
C21_RedAndYellowSources ==
  walk = "returned" =>
     \A k \in 1..Len(phases) :
        /\ phases[k].allRed \in
             SubsetSums({t \in spans[k] : ActiveMovs(phasingData, t) = {}}, timeIntervals)
        /\ phases[k].yellow \in
             SubsetSums({t \in spans[k] :
                           phases[k].Movs \cap cYellowMovs(phasingData, t) # {}},
                        timeIntervals)

\* a phase returned with both a yellow and an all-red part
C21_Witness ==
  /\ walk = "returned"
  /\ \E k \in 1..Len(phases) : phases[k].allRed > 0 /\ phases[k].yellow > 0

-----------------------------------------------------------------------------
(* The worked example of the getPhases docstring *)

DocEB == <<"G", "G", "Y", "R", "R", "R", "R", "R">>

DocNB == <<"R", "R", "R", "R", "G", "G", "Y", "R">>

DocAllRed == <<"R", "R", "R", "R", "R", "R", "R", "R">>

DocAllGreen == <<"G", "G", "G", "G", "G", "G", "G", "G">>

DocRows == {DocEB, DocNB, DocAllRed, DocAllGreen}

\* [47.0, 6.0, 3.5, 0.5, 8.0, 20.0, 3.5, 1.5] seconds, in half seconds
DocTimes == <<94, 12, 7, 1, 16, 40, 7, 3>>

DocGrid == [gMov \in Groups |-> IF gMov = "MAIN EB" THEN DocEB ELSE DocNB]

InitDoc ==
  /\ phasingData \in [Groups -> DocRows]
  /\ timeIntervals = DocTimes
  /\ timeIndex = 0
  /\ pPhase = <<>>
  /\ phases = <<>>
  /\ branch = "none"
  /\ walk = "walking"
  /\ spans = <<>>
  /\ IdleSelect
  /\ IdleBatch
  /\ IdleParse
  /\ IdleHelpers

SpecDoc == InitDoc /\ [][NextPhases]_vars

\* C3: for rows MAIN EB = [G,G,Y,R,R,R,R,R] and CROSS NB = [R,R,R,R,G,G,Y,R]
\* with durations [47, 6, 3.5, 0.5, 8, 20, 3.5, 1.5] getPhases returns exactly
\* {MAIN EB}: green 53, yellow 3.5, allRed 0.5 and then {CROSS NB}: green 28,
\* yellow 3.5, allRed 1.5 (half seconds below).
C3_DocExample ==
  (walk = "returned" /\ phasingData = DocGrid /\ timeIntervals = DocTimes) =>
     phases = << [Movs |-> {"MAIN EB"}, green |-> 106, yellow |-> 7, allRed |-> 1],
                 [Movs |-> {"CROSS NB"}, green |-> 56, yellow |-> 7, allRed |-> 3] >>

C3_Witness ==
  walk = "returned" /\ phasingData = DocGrid /\ timeIntervals = DocTimes /\ Len(phases) = 2

-----------------------------------------------------------------------------
(* selectCSO (module level) *)

\* the first of the indices hits, 0 when there is none:
\* "for signalTiming in excelCard.iterSignalTiming(): if ...: return signalTiming"
FirstIndex(hits) ==
  IF hits = {} THEN 0 ELSE CHOOSE i \in hits : \A j \in hits : i <= j

\* mutant: a first loop that leaves out a period starting at the query time
TierStartedBefore(p, qStart) ==
  qStart > p.startTime /\ qStart <= p.endTime /\ p.endTime > p.startTime

\* mutant: the first loop without "endTime > startTime"
TierInOperationLoose(p, qStart) == qStart >= p.startTime /\ qStart <= p.endTime

TierInOperation(p, qStart) ==
  qStart >= p.startTime /\ qStart <= p.endTime /\ p.endTime > p.startTime

TierAllOtherTimes(p) == p.startTime = 0 /\ p.endTime = 0

TierFullDay(p) == p.startTime = 0 /\ p.endTime = 1439

\* mutant: a first loop that also wants the query end inside the period
selectCSOWithin(periods, qStart, qEnd) ==
  LET first == FirstIndex({i \in 1..Len(periods) :
                             TierInOperation(periods[i], qStart) /\ qEnd <= periods[i].endTime})
      second == FirstIndex({i \in 1..Len(periods) : TierAllOtherTimes(periods[i])})
      third == FirstIndex({i \in 1..Len(periods) : TierFullDay(periods[i])})
  IN IF first # 0 THEN first
     ELSE IF second # 0 THEN second
     ELSE third

\* which of the three loops returns: 0 when none does ("return None")
ReturningLoop(periods, qStart) ==
  IF \E i \in 1..Len(periods) : TierInOperation(periods[i], qStart) THEN 1
  ELSE IF \E i \in 1..Len(periods) : TierAllOtherTimes(periods[i]) THEN 2
  ELSE IF \E i \in 1..Len(periods) : TierFullDay(periods[i]) THEN 3
  ELSE 0

selectCSO(periods, qStart, qEnd) ==
  LET first == FirstIndex({i \in 1..Len(periods) : TierInOperation(periods[i], qStart)})
      second == FirstIndex({i \in 1..Len(periods) : TierAllOtherTimes(periods[i])})
      third == FirstIndex({i \in 1..Len(periods) : TierFullDay(periods[i])})
  IN IF first # 0 THEN first
     ELSE IF second # 0 THEN second
     ELSE third

CsoCodes == <<"111", "211", "311", "411", "511">>

\* an ExcelSignalTiming
Period(cso, s, e, off, times) ==
  [cso |-> cso, startTime |-> s, endTime |-> e, offset |-> off, times |-> times]

\* the period lists of n periods, each with start and end in Times and interval
\* durations among timesChoices; offsets tell the periods apart
TimedCards(n, timesChoices) ==
  { [i \in 1..n |-> Period(CsoCodes[i], se[i][1], se[i][2], i, se[i][3])] :
      se \in [1..n -> Times \X Times \X timesChoices] }

InitSelect ==
  /\ \E n \in 0..MaxPeriods : signalTiming \in TimedCards(n, {<<1, 2>>})
  /\ startTime \in Times
  /\ endTime \in {startTime, 1439}
  /\ selected = 0
  /\ selCalls = 0
  /\ returned = <<>>
  /\ IdlePhases
  /\ IdleBatch
  /\ IdleParse
  /\ IdleHelpers

\* what a call hands back: the ExcelSignalTiming object, or None
NoPeriod == [cso |-> "None"]

ReturnValue(periods, index) == IF index = 0 THEN NoPeriod ELSE periods[index]

\* the list periods without its element index (all of it when index is 0)
Without(periods, index) ==
  [i \in 1..(Len(periods) - (IF index = 0 THEN 0 ELSE 1)) |->
     IF index = 0 \/ i < index THEN periods[i] ELSE periods[i + 1]]

\* mutant: a selection that takes the period out of the card as it returns it
CallSelectCSOPop ==
  /\ selCalls < MaxCalls
  /\ LET index == selectCSO(signalTiming, startTime, endTime)
     IN /\ selected' = index
        /\ signalTiming' = Without(signalTiming, index)
        /\ returned' = Append(returned, [before |-> signalTiming,
                                         result |-> ReturnValue(signalTiming, index),
                                         loop |-> ReturningLoop(signalTiming, startTime),
                                         after |-> Without(signalTiming, index)])
  /\ selCalls' = selCalls + 1
  /\ UNCHANGED <<startTime, endTime, phaseVars, batchVars, parseVars, helperVars>>

\* the three loops only read excelCard: nothing is assigned
CallSelectCSO ==
  /\ selCalls < MaxCalls
  /\ LET index == selectCSO(signalTiming, startTime, endTime)
     IN /\ selected' = index
        /\ returned' = Append(returned, [before |-> signalTiming,
                                         result |-> ReturnValue(signalTiming, index),
                                         loop |-> ReturningLoop(signalTiming, startTime),
                                         after |-> signalTiming])
  /\ selCalls' = selCalls + 1
  /\ UNCHANGED <<signalTiming, startTime, endTime, phaseVars, batchVars, parseVars, helperVars>>

NextSelect == CallSelectCSO

SpecSelect == InitSelect /\ [][NextSelect]_vars

InOperationAt(p, q) == p.startTime <= q /\ q <= p.endTime /\ p.endTime > p.startTime

HasPeriod(periods, Test(_)) == \E i \in 1..Len(periods) : Test(periods[i])

\* C4: selectCSO returns a period in operation at the query start (start <=
\* query-start <= end, end > start) if the card has one; otherwise a 0:00-0:00
\* period if it has one; otherwise a 0:00-23:59 period if it has one; otherwise
\* None; the period returned satisfies the condition of the tier that chose it.
C4_ThreeTiers ==
  selCalls = 1 =>
    LET inOp(p) == InOperationAt(p, startTime)
        allOther(p) == p.startTime = 0 /\ p.endTime = 0
        fullDay(p) == p.startTime = 0 /\ p.endTime = 1439
    IN IF HasPeriod(signalTiming, inOp)
       THEN selected # 0 /\ inOp(signalTiming[selected])
       ELSE IF HasPeriod(signalTiming, allOther)
       THEN selected # 0 /\ allOther(signalTiming[selected])
       ELSE IF HasPeriod(signalTiming, fullDay)
       THEN selected # 0 /\ fullDay(signalTiming[selected])
       ELSE selected = 0

\* a call decided by the second tier although the card also holds a sentinel
\* 23:59-23:59 period and the query is 23:59
C4_Witness ==
  /\ selCalls = 1
  /\ selected # 0
  /\ startTime = 1439
  /\ signalTiming[selected].startTime = 0 /\ signalTiming[selected].endTime = 0
  /\ \E i \in 1..Len(signalTiming) :
       signalTiming[i].startTime = 1439 /\ signalTiming[i].endTime = 1439 /\ i < selected

Sentinel(p) == p.startTime = 1439 /\ p.endTime = 1439

\* C11: for every card and every query time, selectCSO never returns a period
\* whose start and end are both 23:59.
C11_NeverSentinel ==
  \A k \in 1..Len(returned) : returned[k].result = NoPeriod \/ ~Sentinel(returned[k].result)

\* a call at 23:59 on a card whose first period is a sentinel returned a later
\* full-day period
C11_Witness ==
  /\ selCalls >= 1
  /\ startTime = 1439
  /\ Len(signalTiming) >= 2
  /\ Sentinel(signalTiming[1])
  /\ returned[1].result # NoPeriod
  /\ returned[1].result.startTime = 0 /\ returned[1].result.endTime = 1439

C28_EndTimeIgnored ==
  \A k \in 1..Len(returned) : \A qEnd \in Times :
     ReturnValue(returned[k].before, selectCSO(returned[k].before, startTime, qEnd))
        = returned[k].result

\* a call with query 7:00 to 23:59 returned a period that ends at 19:00
C28_Witness ==
  /\ selCalls >= 1
  /\ startTime = 420
  /\ endTime = 1439
  /\ returned[1].result # NoPeriod
  /\ returned[1].result.endTime = 1140

\* C30: the third loop of selectCSO never is the one that returns: when a card
\* has a 0:00-23:59 period the first loop already returns a period for every
\* query time.
C30_ThirdLoopNeverReturns ==
  \A k \in 1..Len(returned) :
     /\ returned[k].loop # 3
     /\ (\E i \in 1..Len(returned[k].before) :
           returned[k].before[i].startTime = 0 /\ returned[k].before[i].endTime = 1439)
          => returned[k].loop = 1

\* a call at 0:00 on a card whose only period in operation is a 0:00-23:59 one
C30_Witness ==
  /\ selCalls >= 1
  /\ startTime = 0
  /\ returned[1].loop = 1
  /\ returned[1].result # NoPeriod
  /\ returned[1].result.startTime = 0 /\ returned[1].result.endTime = 1439
  /\ Cardinality({i \in 1..Len(signalTiming) : InOperationAt(signalTiming[i], startTime)}) = 1

-----------------------------------------------------------------------------
(* The road network and the cards read from the directory *)

\* Street names are canonical iiName strings; a node matches a card when its
\* cleaned street names equal the card's (difflib ratio 1.0 >= CUTOFF).  Two
\* intersections of the same two streets exist in the network, as the
\* hard-coded node choices of findNodeWithSameStreetNames record.
NetNodes == << [id |-> 101, streets |-> "10TH,GEARY"],
               [id |-> 102, streets |-> "10TH,GEARY"] >>

CardNames == {"10TH,GEARY", "CROSS,MAIN"}

\* the movement groups of a card's sheet
CardGroups == Groups \cup {"SIDE WB"}

\* phasingData.getElementsOfDimention(0): the movement groups in sheet order
GroupOrder == <<"MAIN EB", "CROSS NB", "SIDE WB">>

\* What the label of a movement group and the mapped node make of it in
\* mapGroupMovements:
\*   "deny"      the label matches the skip list (DRIVEWAY, GARAGE, ...)
\*   "cond"      the label matches one of the five street/direction skips
\*   "skiptwice" the label matches two of the skip tests (e.g. a GARAGE on PINE EB)
\*   "nostreet"  getStreetName raises StreetNameMappingError
\*   "nolinks"   no candidate link: MovementMappingError
\*   "nomovs"    no movement of the wanted turn type: MovementMappingError
\*   "ok"        at least one movement is appended to mappedMovements
GroupCases == {"deny", "cond", "skiptwice", "nostreet", "nolinks", "nomovs", "ok"}

SkippedCases == {"deny", "cond", "skiptwice"}

-----------------------------------------------------------------------------
(* findNodeWithSameStreetNames *)

Registered(mn) == {mn[k] : k \in DOMAIN mn}

\* the id of the node the card is mapped to, 0 when the function returns False
findNodeWithSameStreetNames(iiName, mn) ==
  LET fits(i) == NetNodes[i].id \notin Registered(mn) /\ NetNodes[i].streets = iiName
  IN IF \E i \in 1..Len(NetNodes) : fits(i)
     THEN NetNodes[CHOOSE i \in 1..Len(NetNodes) :
                     fits(i) /\ \A j \in 1..(i - 1) : ~fits(j)].id
     ELSE 0

\* mappedNodes[excelCard.iiName] = node.getId()
Register(mn, iiName, id) ==
  IF id = 0 THEN mn
  ELSE [k \in DOMAIN mn \cup {iiName} |-> IF k = iiName THEN id ELSE mn[k]]

-----------------------------------------------------------------------------
(* mapMovements *)

\* mappedMovements is a defaultdict(list)
Lookup(mm, gMov) == IF gMov \in DOMAIN mm THEN mm[gMov] ELSE <<>>

RECURSIVE mapGroupMovements(_, _, _, _)
mapGroupMovements(groupCase, nodeId, i, mm) ==
  IF i > Len(GroupOrder) THEN [mappedMovements |-> mm, error |-> "none"]
  ELSE CASE groupCase[GroupOrder[i]] \in SkippedCases ->
              mapGroupMovements(groupCase, nodeId, i + 1, mm)
         [] groupCase[GroupOrder[i]] = "nostreet" ->
              [mappedMovements |-> mm, error |-> "StreetNameMappingError"]
         [] groupCase[GroupOrder[i]] \in {"nolinks", "nomovs"} ->
              [mappedMovements |-> mm, error |-> "MovementMappingError"]
         [] OTHER ->
              mapGroupMovements(groupCase, nodeId, i + 1,
                [k \in DOMAIN mm \cup {GroupOrder[i]} |->
                   IF k = GroupOrder[i] THEN << <<nodeId, GroupOrder[i]>> >> ELSE mm[k]])

\* mutant: only the "No mapped movements" test
TooFewMappedZeroOnly(mm) == Cardinality(DOMAIN mm) = 0

\* "if len(mec.mappedMovements) == 0 ... if len(mec.mappedMovements) == 1"
TooFewMapped(mm) == Cardinality(DOMAIN mm) = 0 \/ Cardinality(DOMAIN mm) = 1

\* the group movements left after the removal loop
RemainingGroups(groupCase) == {gMov \in DOMAIN groupCase : groupCase[gMov] \notin SkippedCases}

Rejected(mm, why) ==
  [accepted |-> FALSE, mappedMovements |-> mm, error |-> why, raised |-> "none"]

\* mutant: a mapping error is logged and the card is kept when two movement
\* groups are mapped
CheckMappedLenient(c, m) ==
  IF TooFewMapped(m.mappedMovements) THEN Rejected(m.mappedMovements, "TooFewMapped")
  ELSE [accepted |-> TRUE, mappedMovements |-> m.mappedMovements, error |-> "none",
        raised |-> "none"]

\* what mapMovements returns once mapGroupMovements has returned or raised m
CheckMapped(c, m) ==
  IF m.error # "none" THEN Rejected(m.mappedMovements, m.error)
  ELSE IF TooFewMapped(m.mappedMovements) THEN Rejected(m.mappedMovements, "TooFewMapped")
  ELSE IF \E gMov \in DOMAIN c.groupCase : c.groupCase[gMov] = "skiptwice"
       \* MovementNames.remove(gMovName) a second time: ValueError
       THEN [accepted |-> FALSE, mappedMovements |-> m.mappedMovements, error |-> "none",
             raised |-> "ValueError"]
  ELSE IF Cardinality(DOMAIN m.mappedMovements) # Cardinality(RemainingGroups(c.groupCase))
       THEN Rejected(m.mappedMovements, "NotAllMapped")
  ELSE IF \E gMov \in RemainingGroups(c.groupCase) : Len(Lookup(m.mappedMovements, gMov)) = 0
       THEN Rejected(m.mappedMovements, "GroupNotMapped")
  ELSE [accepted |-> TRUE, mappedMovements |-> m.mappedMovements, error |-> "none",
        raised |-> "none"]

\* [accepted, mappedMovements, error, raised]
mapMovements(c, nodeId) ==
  CheckMapped(c, IF nodeId # 0
                 THEN mapGroupMovements(c.groupCase, nodeId, 1, <<>>)
                 ELSE [mappedMovements |-> <<>>, error |-> "none"])

-----------------------------------------------------------------------------
(* convertSignalToDynameq, createDynameqSignals, checkNumberofTimes *)

\* "if signalTiming:" -- ExcelSignalTiming defines __len__ as len(self.times),
\* so a period without interval durations is as false as None
Truthy(periods, i) == i # 0 /\ Len(periods[i].times) > 0

\* the period of the first selection if it is true, else of the one retried
\* with 0:00-0:00: an index into periods, 0 when "Unable to find CSO"
ChooseCSO(periods, qStart, qEnd) ==
  IF Truthy(periods, selectCSO(periods, qStart, qEnd))
  THEN selectCSO(periods, qStart, qEnd)
  ELSE IF Truthy(periods, selectCSO(periods, 0, 0))
  THEN selectCSO(periods, 0, 0)
  ELSE 0

\* the movements bound to the movement groups of one phase
PhaseMovements(mm, movs) ==
  UNION { {Lookup(mm, gMov)[k] : k \in 1..Len(Lookup(mm, gMov))} : gMov \in movs }

\* the loop over excelPhases: a Phase with its movements for each of them
BindPhases(mm, got) ==
  [k \in 1..Len(got) |->
     [Movs |-> got[k].Movs, green |-> got[k].green, yellow |-> got[k].yellow,
      allRed |-> got[k].allRed, movements |-> PhaseMovements(mm, got[k].Movs)]]

\* the plan of the chosen period; card.getPhases selects with the same
\* arguments again and so walks the durations of the same period
PlanOfPeriod(period, timed, offset, mm, got) ==
  [raised |-> IF got.raised THEN "NameError" ELSE "none",
   period |-> period, timed |-> timed, offset |-> offset,
   phases |-> BindPhases(mm, got.phases)]

\* period: the one whose cso indexes card.signalTiming for the offset;
\* timed: the one card.getPhases(startTime, endTime) selects for its .times
ConvertChosen(c, mm, period, timed) ==
  IF period = 0
  THEN [raised |-> "DtaError", period |-> 0, timed |-> 0, offset |-> 0, phases |-> <<>>]
  ELSE IF timed = 0
  THEN [raised |-> "AttributeError", period |-> period, timed |-> 0,
        offset |-> c.signalTiming[period].offset, phases |-> <<>>]
  ELSE PlanOfPeriod(period, timed, c.signalTiming[period].offset, mm,
                    getPhases(c.phasingData, c.signalTiming[timed].times))

\* mutant: getPhases called with the query of the first selection
GetPhasesQueryKept(periods, qStart, qEnd) == <<qStart, qEnd>>

\* startTime and endTime as they are when card.getPhases is called: the
\* retry has set both to 0:00
GetPhasesQuery(periods, qStart, qEnd) ==
  IF Truthy(periods, selectCSO(periods, qStart, qEnd)) THEN <<qStart, qEnd>> ELSE <<0, 0>>

\* "timeIntervals = selectCSO(self, startHour, endHour).times"
GetPhasesPeriod(periods, q) == selectCSO(periods, q[1], q[2])

\* [raised, period, timed, offset, phases]
convertSignalToDynameq(c, mm, qStart, qEnd) ==
  ConvertChosen(c, mm, ChooseCSO(c.signalTiming, qStart, qEnd),
                GetPhasesPeriod(c.signalTiming, GetPhasesQuery(c.signalTiming, qStart, qEnd)))

\* the try blocks around convertSignalToDynameq, validate and addTimePlan.
\* c.validates stands for dPlan.validate() and node.addTimePlan() of the dta
\* library raising no DtaError.
AddTimePlan(c, conv) ==
  [plan |-> conv.raised = "none" /\ c.validates,
   raised |-> IF conv.raised \in {"NameError", "AttributeError"} THEN conv.raised
              ELSE "none",
   conv |-> conv]

\* [plan, raised, conv]: plan is FALSE when the function returns False
createDynameqSignals(c, mm, qStart, qEnd) ==
  AddTimePlan(c, convertSignalToDynameq(c, mm, qStart, qEnd))

checkNumberofTimes(periods, qStart, qEnd) ==
  Cardinality({i \in 1..Len(periods) :
                 /\ qStart >= periods[i].startTime
                 /\ qEnd <= periods[i].endTime
                 /\ periods[i].endTime > periods[i].startTime})

-----------------------------------------------------------------------------
(* One iteration of the loop over os.listdir(EXCEL_DIR) *)

NoConv == [raised |-> "none", period |-> 0, timed |-> 0, offset |-> 0, phases |-> <<>>]

\* the record of an iteration; the fields an iteration does not reach keep
\* these values
Outcome(c) ==
  [file |-> c.file, card |-> c, raised |-> "none", parsed |-> FALSE,
   mappedNodeId |-> 0, mappedMovements |-> <<>>, mapError |-> "none",
   accepted |-> FALSE, reached |-> FALSE, plan |-> FALSE, conv |-> NoConv,
   nummatches |-> 0]

\* parseExcelCardsToSignalObjects: what leaves the function when
\* parseExcelCardFile raises.  The handler reads the local sd, which the
\* failed assignment never bound.
ParseHandler(c) ==
  IF c.parse \in {"ParsingCardError", "ExcelSignalTimingError"}
  THEN "UnboundLocalError" ELSE "none"

\* the iteration up to "if cardsWithMovements == False: continue"
Mapped(c, nodeId, mapped) ==
  [Outcome(c) EXCEPT !.parsed = TRUE, !.mappedNodeId = nodeId,
                     !.mappedMovements = mapped.mappedMovements,
                     !.mapError = mapped.error, !.accepted = mapped.accepted,
                     !.raised = mapped.raised]

\* the rest of the iteration of a card mapMovements has accepted
Converted(o, made, nummatches) ==
  [o EXCEPT !.reached = TRUE, !.plan = made.plan, !.conv = made.conv,
            !.raised = made.raised,
            !.nummatches = IF made.plan THEN nummatches ELSE 0]

AfterMapping(c, nodeId, mapped, qStart, qEnd) ==
  IF ~mapped.accepted THEN Mapped(c, nodeId, mapped)
  ELSE Converted(Mapped(c, nodeId, mapped),
                 createDynameqSignals(c, mapped.mappedMovements, qStart, qEnd),
                 checkNumberofTimes(c.signalTiming, qStart, qEnd))

AfterParsing(c, nodeId, qStart, qEnd) ==
  AfterMapping(c, nodeId, mapMovements(c, nodeId), qStart, qEnd)

LoopIteration(c, mn, qStart, qEnd) ==
  IF c.file # "xls" THEN Outcome(c)                       \* returns False: continue
  ELSE IF c.parse # "ok" THEN [Outcome(c) EXCEPT !.raised = ParseHandler(c)]
  ELSE AfterParsing(c, findNodeWithSameStreetNames(c.iiName, mn), qStart, qEnd)

-----------------------------------------------------------------------------
(* The batch loop *)

Card(file, parse, iiName, pd, periods, groupCase, validates) ==
  [file |-> file, parse |-> parse, iiName |-> iiName, phasingData |-> pd,
   signalTiming |-> periods, groupCase |-> groupCase, validates |-> validates]

\* a directory entry that is no card: not *.xls, or System*.xls
OtherFile == Card("other", "ok", "", <<>>, <<>>, <<>>, FALSE)

\* a workbook parseExcelCardFile fails on
BadCards == { Card("xls", e, "", <<>>, <<>>, <<>>, FALSE) :
                e \in {"ParsingCardError", "ExcelSignalTimingError"} }

TwoPhaseGrid == [gMov \in CardGroups |-> IF gMov = "MAIN EB" THEN <<"G", "R">> ELSE <<"R", "G">>]

FullDay == << Period("111", 0, 1439, 0, <<1, 2>>) >>

SentinelOnly == << Period("111", 1439, 1439, 0, <<1, 2>>) >>

TwoPlans == << Period("111", 0, 1439, 0, <<1, 2>>), Period("211", 420, 1439, 5, <<2, 1>>) >>

AllMapped == [gMov \in CardGroups |-> "ok"]

\* the cards of the batch runs: every way the mapping can go, on one grid
BatchCards ==
  {OtherFile} \cup BadCards \cup
  { Card("xls", "ok", nm, TwoPhaseGrid, per, gc, v) :
      nm \in CardNames, per \in {FullDay, SentinelOnly, TwoPlans},
      gc \in [CardGroups -> {"ok", "nomovs"}], v \in BOOLEAN }

\* the cards of the single-card runs: every grid of n intervals under a full-day period, with
\* every group mapped or with the last one on the skip list; ...
GridCards(n) ==
  { Card("xls", "ok", "10TH,GEARY", pd,
         << Period("111", 0, 1439, 0, [i \in 1..n |-> i]) >>, gc, TRUE) :
      pd \in Grids(CardGroups, n),
      gc \in {AllMapped, [AllMapped EXCEPT !["SIDE WB"] = "deny"]} }

\* ... every mapping case on one grid; ...
MappingCards ==
  { Card("xls", "ok", "10TH,GEARY", TwoPhaseGrid, FullDay, gc, v) :
      gc \in [CardGroups -> GroupCases], v \in BOOLEAN }

\* ... and every list of n periods on one grid with every group mapped
PeriodCards(n) ==
  { Card("xls", "ok", "10TH,GEARY", TwoPhaseGrid, per, AllMapped, v) :
      per \in TimedCards(n, {<<1, 2>>, <<>>}), v \in BOOLEAN }

InitBatch ==
  /\ START_TIME \in {420, 1140}
  /\ END_TIME = 1140
  /\ pos = 0
  /\ mappedNodes = <<>>
  /\ cardNodes = <<>>
  /\ cardsDone = 0
  /\ cardsWithMove = 0
  /\ allPlansSet = 0
  /\ allMoreMatchesSet = 0
  /\ last = NoFile
  /\ run = "running"
  /\ IdlePhases
  /\ IdleSelect
  /\ IdleParse
  /\ IdleHelpers

InitCard ==
  /\ START_TIME \in Times
  /\ END_TIME = 1439
  /\ pos = 0
  /\ mappedNodes = <<>>
  /\ cardNodes = <<>>
  /\ cardsDone = 0
  /\ cardsWithMove = 0
  /\ allPlansSet = 0
  /\ allMoreMatchesSet = 0
  /\ last = NoFile
  /\ run = "running"
  /\ IdlePhases
  /\ IdleSelect
  /\ IdleParse
  /\ IdleHelpers

Count(b) == IF b THEN 1 ELSE 0

\* what one iteration leaves in the lists and the registry of __main__
\* mutant: cardsDone appended to after mapMovements instead of after parsing
TallyDoneLate(c, o) ==
  /\ last' = o
  /\ run' = IF o.raised # "none" THEN "crashed" ELSE "running"
  /\ mappedNodes' = IF o.parsed THEN Register(mappedNodes, c.iiName, o.mappedNodeId)
                    ELSE mappedNodes
  /\ cardNodes' = IF o.parsed THEN Append(cardNodes, o.mappedNodeId) ELSE cardNodes
  /\ cardsDone' = cardsDone + Count(o.accepted)
  /\ cardsWithMove' = cardsWithMove + Count(o.accepted)
  /\ allPlansSet' = allPlansSet + Count(o.plan)
  /\ allMoreMatchesSet' = allMoreMatchesSet + Count(o.plan /\ o.nummatches > 1)

Tally(c, o) ==
  /\ last' = o
  /\ run' = IF o.raised # "none" THEN "crashed" ELSE "running"
  /\ mappedNodes' = IF o.parsed THEN Register(mappedNodes, c.iiName, o.mappedNodeId)
                    ELSE mappedNodes
  /\ cardNodes' = IF o.parsed THEN Append(cardNodes, o.mappedNodeId) ELSE cardNodes
  /\ cardsDone' = cardsDone + Count(o.parsed)
  /\ cardsWithMove' = cardsWithMove + Count(o.accepted)
  /\ allPlansSet' = allPlansSet + Count(o.plan)
  /\ allMoreMatchesSet' = allMoreMatchesSet + Count(o.plan /\ o.nummatches > 1)

\* the body of "for fileName in os.listdir(EXCEL_DIR)" for one file
ProcessFile(cards, maxFiles) ==
  /\ run = "running"
  /\ pos < maxFiles
  /\ \E c \in cards : Tally(c, LoopIteration(c, mappedNodes, START_TIME, END_TIME))
  /\ pos' = pos + 1
  /\ UNCHANGED <<START_TIME, END_TIME, phaseVars, selectVars, parseVars, helperVars>>

\* the directory listing is exhausted: the summary is logged
EndOfDirectory ==
  /\ run = "running"
  /\ run' = "finished"
  /\ UNCHANGED <<START_TIME, END_TIME, pos, mappedNodes, cardNodes, cardsDone,
                 cardsWithMove, allPlansSet, allMoreMatchesSet, last,
                 phaseVars, selectVars, parseVars, helperVars>>

NextBatch == ProcessFile(BatchCards, MaxFiles) \/ EndOfDirectory

SpecBatch == InitBatch /\ [][NextBatch]_vars

\* the sizes and the cards of one family of single cards
CardSizes(family) ==
  CASE family = "grids" -> 1..MaxCardN
    [] family = "periods" -> 0..MaxCardPeriods
    [] OTHER -> {0}

SingleCards(family, n) ==
  CASE family = "grids" -> GridCards(n)
    [] family = "periods" -> PeriodCards(n)
    [] OTHER -> MappingCards

\* a directory that holds one card of the family
ProcessCard(family) ==
  /\ run = "running"
  /\ \E n \in CardSizes(family) : ProcessFile(SingleCards(family, n), 1)

NextCard ==
  \/ ProcessCard("grids")
  \/ ProcessCard("mappings")
  \/ ProcessCard("periods")
  \/ EndOfDirectory

SpecCard == InitCard /\ [][NextCard]_vars

-----------------------------------------------------------------------------
(* Claims about the batch loop *)

\* C5: when processing a card raises ParsingCardError, ExcelSignalTimingError,
\* MovementMappingError or StreetNameMappingError, the card gets no time plan
\* and the loop goes on with the next file: nothing terminates the batch.
C5_ErrorsSkipCard ==
  (/\ last.file = "xls"
   /\ \/ last.card.parse \in {"ParsingCardError", "ExcelSignalTimingError"}
      \/ last.mapError \in {"MovementMappingError", "StreetNameMappingError"})
  => (run # "crashed" /\ ~last.plan)

\* C29: after any number of files processed by the batch loop, time plans <=
\* cards with mapped movements <= cards parsed, registry entries <= cards
\* parsed, and cards flagged as ambiguous <= time plans.
C29_CountersOrdered ==
  /\ allPlansSet <= cardsWithMove
  /\ cardsWithMove <= cardsDone
  /\ Cardinality(DOMAIN mappedNodes) <= cardsDone
  /\ allMoreMatchesSet <= allPlansSet

\* three files taken, each counter below the one before it
C29_Witness ==
  /\ pos = 3
  /\ cardsDone = 3
  /\ cardsWithMove = 2
  /\ allPlansSet = 1
  /\ allMoreMatchesSet = 1
  /\ Cardinality(DOMAIN mappedNodes) >= 1

\* C6: after any sequence of cards processed with one shared mappedNodes
\* registry, no two cards have been mapped to the same network node id.
C6_NoNodeTwice ==
  \A i, j \in 1..Len(cardNodes) :
    (i # j /\ cardNodes[i] # 0) => cardNodes[i] # cardNodes[j]

\* C7: a card for which zero or exactly one movement group ends up with mapped
\* movements is rejected by mapMovements, never reaches createDynameqSignals
\* and gets no time plan.
C7_TooFewRejected ==
  (last.file = "xls" /\ last.parsed /\ Cardinality(DOMAIN last.mappedMovements) <= 1)
  => (~last.accepted /\ ~last.reached /\ ~last.plan)

\* a parsed card with exactly one mapped movement group and no mapping error
C7_Witness ==
  /\ last.file = "xls"
  /\ last.parsed
  /\ Cardinality(DOMAIN last.mappedMovements) = 1
  /\ last.mapError = "TooFewMapped"
  /\ \E gMov \in CardGroups : last.card.groupCase[gMov] = "ok"

\* the movement groups of the phases made for the card of the last iteration
PhaseGroups(o) == UNION {o.conv.phases[k].Movs : k \in DOMAIN o.conv.phases}

\* C8 as stated: for every card mapMovements accepts, every movement group in
\* the movement set of a phase returned by getPhases, the groups on the skip
\* list included, has a non-empty list of movements in mappedMovements.
C8_PhaseGroupsBound ==
  (last.file = "xls" /\ last.accepted) =>
    \A gMov \in PhaseGroups(last) : Len(Lookup(last.mappedMovements, gMov)) > 0

\* C8 amended: for every card mapMovements accepts, every movement group that
\* no skip rule of mapGroupMovements matches and that is in the movement set
\* of a phase returned by getPhases has a non-empty list of movements in
\* mappedMovements.
C8_UnskippedPhaseGroupsBound ==
  (last.file = "xls" /\ last.accepted) =>
    \A gMov \in PhaseGroups(last) :
      last.card.groupCase[gMov] \notin SkippedCases =>
        Len(Lookup(last.mappedMovements, gMov)) > 0

\* an accepted card with a phase that holds a mapped group and a skipped one
C8_Witness ==
  /\ last.file = "xls"
  /\ last.accepted
  /\ \E k \in DOMAIN last.conv.phases :
       /\ \E gMov \in last.conv.phases[k].Movs :
            /\ last.card.groupCase[gMov] = "ok"
            /\ Len(Lookup(last.mappedMovements, gMov)) > 0
       /\ \E gMov \in last.conv.phases[k].Movs : last.card.groupCase[gMov] = "deny"

\* C27: in convertSignalToDynameq the offset given to the TimePlan and the
\* interval durations getPhases folds are taken from one and the same period,
\* also when the first selection returns none and the selection is retried
\* with query time 0:00.
C27_OffsetAndDurationsSamePeriod ==
  (last.file = "xls" /\ last.reached /\ last.conv.period # 0) =>
     /\ last.conv.timed = last.conv.period
     /\ last.conv.offset = last.card.signalTiming[last.conv.timed].offset
     /\ last.conv.raised = "none"

\* a plan made after the retry: nothing is in operation at the query time and
\* the period chosen is a 0:00-0:00 one
C27_Witness ==
  /\ last.file = "xls"
  /\ last.plan
  /\ ~Truthy(last.card.signalTiming,
             selectCSO(last.card.signalTiming, START_TIME, END_TIME))
  /\ last.conv.period # 0
  /\ START_TIME # 0
  /\ Len(last.conv.phases) >= 1

\* C10: a card gets a time plan only if it has a period in operation at the
\* query start time, or a 0:00-0:00 period, or a 0:00-23:59 period.
C10_OnlyActiveConverted ==
  (last.file = "xls" /\ last.plan) =>
    LET inOp(p) == InOperationAt(p, START_TIME)
    IN \/ HasPeriod(last.card.signalTiming, inOp)
       \/ HasPeriod(last.card.signalTiming, TierAllOtherTimes)
       \/ HasPeriod(last.card.signalTiming, TierFullDay)

-----------------------------------------------------------------------------
(* parseExcelCardFile *)

\* The sheet as the parser sees it.
\*   layout    "ok", or "nocycle" when the CYCLE keyword is not found
\*   rows      the rows of the signal interval section, in the order
\*             signalTiming.values() has them (the order of a dict keyed by
\*             cso): cso, offset, interval durations, and the start and end
\*             written in the operation times section for that cso
\*   firstRead the index in rows of the row that is first on the sheet, 0
\*             when the section is empty
\*   cells     the rows of the phasing section, MaxSheetTimes cells each
\* The cells of the cso, cycle and offset columns parse, and colPhaseData is
\* not the first column of the sheet.
Cells == {"G", "R", ""}

OpTimes == { <<0, 0>>, <<0, 1439>>, <<420, 1140>>, <<1439, 1439>> }

SheetTimes == { [i \in 1..k |-> i] : k \in 0..MaxSheetTimes }

SheetPeriods(n) ==
  { [i \in 1..n |-> Period(CsoCodes[i], se[i][1][1], se[i][1][2], i, se[i][2])] :
      se \in [1..n -> OpTimes \X SheetTimes] }

\* the sheets with n rows of signal intervals and r rows of phasing
Sheets(n, r) ==
  { [layout |-> l, rows |-> p, firstRead |-> f, cells |-> c] :
      l \in {"ok", "nocycle"},
      p \in SheetPeriods(n),
      f \in (IF n = 0 THEN {0} ELSE 1..n),
      c \in [1..r -> [1..MaxSheetTimes -> Cells]] }

\* getSignalIntervalData: an ExcelSignalTiming per row, with the default
\* 23:59-23:59; lastColPhaseData is set by the first row that is read, so the
\* phasing section is as wide as that row has durations (0: not set)
getSignalIntervalData(sh) ==
  [signalTiming |-> [i \in DOMAIN sh.rows |->
                       Period(sh.rows[i].cso, 1439, 1439, sh.rows[i].offset,
                              sh.rows[i].times)],
   width |-> IF sh.firstRead = 0 THEN 0 ELSE Len(sh.rows[sh.firstRead].times),
   lastColPhaseData |-> sh.firstRead # 0]

\* getOperationTimes: setTimes for every cso of the operation times section
getOperationTimes(sh, periods) ==
  [i \in DOMAIN periods |->
     [periods[i] EXCEPT !.startTime = sh.rows[i].startTime,
                        !.endTime = sh.rows[i].endTime]]

\* fillPhaseInfo: a blank takes the state to its left, a leading blank the
\* state to its right
RECURSIVE fillPhaseInfo(_, _)
fillPhaseInfo(row, i) ==
  IF i > Len(row) THEN row
  ELSE IF row[i] = "" /\ i > 1 /\ row[i - 1] # ""
       THEN fillPhaseInfo([row EXCEPT ![i] = row[i - 1]], i + 1)
  ELSE IF row[i] = ""
       THEN fillPhaseInfo([row EXCEPT ![i] =
                             row[CHOOSE j \in (i + 1)..Len(row) :
                                   row[j] # "" /\ \A k \in (i + 1)..(j - 1) : row[k] = ""]],
                          i + 1)
  ELSE fillPhaseInfo(row, i + 1)

\* the cells of a phasing row between colPhaseData and lastColPhaseData
RowData(cells, width) == SubSeq(cells, 1, width)

\* the rows getPhasingData keeps: those that are not blank all over
KeptRows(sh, width) ==
  { i \in DOMAIN sh.cells : \E j \in 1..width : RowData(sh.cells[i], width)[j] # "" }

\* SignalData.getNumTimeIntervals: len(self.signalTiming.values()[0]); None
\* (here -1) for a card without timings
getNumTimeIntervals(periods) == IF Len(periods) = 0 THEN 0 - 1 ELSE Len(periods[1].times)

\* getPhasingData: the checks in the order of the source
getPhasingData(sh, periods, width, lastColPhaseData) ==
  IF ~lastColPhaseData THEN [error |-> "ParsingCardError", why |-> "phasing data4"]
  ELSE IF KeptRows(sh, width) = {}
       THEN [error |-> "ParsingCardError", why |-> "no phasing data"]
  ELSE IF Cardinality(KeptRows(sh, width)) <= 1
       THEN [error |-> "ParsingCardError", why |-> "less than two group movements"]
  ELSE IF getNumTimeIntervals(periods) # width
       THEN [error |-> "ParsingCardError", why |-> "number of phase states"]
  ELSE [error |-> "none",
        signalTiming |-> periods,
        phasingData |-> [gMov \in {GroupOrder[i] : i \in KeptRows(sh, width)} |->
                           fillPhaseInfo(RowData(sh.cells[CHOOSE i \in KeptRows(sh, width) :
                                                             GroupOrder[i] = gMov], width), 1)]]

\* the calls of parseExcelCardFile after the sections have been located
ReadSections(sh, intervals) ==
  IF sh.layout = "nocycle"
  THEN [error |-> "ParsingCardError", why |-> "no start and end times"]
  ELSE getPhasingData(sh, getOperationTimes(sh, intervals.signalTiming),
                      intervals.width, intervals.lastColPhaseData)

parseExcelCardFile(sh) == ReadSections(sh, getSignalIntervalData(sh))

InitParse ==
  /\ \E n \in 0..MaxSheetPeriods, r \in 1..MaxSheetRows : sheet \in Sheets(n, r)
  /\ sd = NoCard
  /\ parsePc = "reading"
  /\ walked = NoWalk
  /\ IdlePhases
  /\ IdleSelect
  /\ IdleBatch
  /\ IdleHelpers

ParseSheet ==
  /\ parsePc = "reading"
  /\ sd' = parseExcelCardFile(sheet)
  /\ parsePc' = IF sd'.error = "none" THEN "parsed" ELSE "ParsingCardError"
  /\ UNCHANGED <<sheet, walked, phaseVars, selectVars, batchVars, helperVars>>

\* what getPhases does for the period selected: the number of iterations of
\* its loop and the phases returned
Walk(q, pd, period) ==
  [query |-> q, cso |-> period.cso, durations |-> Len(period.times),
   iterations |-> NumIterations(pd, period.times),
   phases |-> getPhases(pd, period.times).phases]

\* SignalData.getPhases(startHour, endHour) on the parsed card;
\* selectCSO(...).times raises AttributeError when no period is selected
CallGetPhases ==
  /\ parsePc = "parsed"
  /\ \E q \in Times :
       IF selectCSO(sd.signalTiming, q, q) = 0
       THEN /\ parsePc' = "AttributeError"
            /\ walked' = [query |-> q]
       ELSE /\ parsePc' = "walked"
            /\ walked' = Walk(q, sd.phasingData, sd.signalTiming[selectCSO(sd.signalTiming, q, q)])
  /\ UNCHANGED <<sheet, sd, phaseVars, selectVars, batchVars, helperVars>>

NextParse == ParseSheet \/ CallGetPhases

SpecParse == InitParse /\ [][NextParse]_vars

\* C9: on every card parseExcelCardFile returns, every row of the grid has N
\* cells, N is the number of interval durations of every period selectCSO can
\* select, and a call of getPhases walks all N intervals.
C9_GridMatchesSelectedPeriod ==
  /\ parsePc \in {"parsed", "walked"} =>
       /\ \A gMov \in DOMAIN sd.phasingData :
            Len(sd.phasingData[gMov]) = NumIntervals(sd.phasingData)
       /\ \A q \in Times :
            selectCSO(sd.signalTiming, q, q) # 0 =>
              Len(sd.signalTiming[selectCSO(sd.signalTiming, q, q)].times)
                = NumIntervals(sd.phasingData)
  /\ parsePc = "walked" => walked.iterations = NumIntervals(sd.phasingData)

-----------------------------------------------------------------------------
(* groupMovementToTurnType and getDirections *)

\* Python's "sub in s" on strings, which are sequences of characters here
Contains(s, sub) ==
  \E i \in 0..(Len(s) - Len(sub)) : \A j \in 1..Len(sub) : s[i + j] = sub[j]

TURN_LEFT == <<"LT", "LT2">>

TURN_THRU == <<"TH", "TH2">>

TURN_RIGHT == <<"RT", "RT2">>

\* the dict indicators of groupMovementToTurnType: key -> list of indicators
turnIndicators ==
  (TURN_LEFT :>
     <<<<"L", "T", "'", "S">>,
       <<"-", "L">>,
       <<"W", "B", "-", "L">>,
       <<"E", "B", "-", "L">>,
       <<"S", "B", "-", "L">>,
       <<"N", "B", "-", "L">>,
       <<"L", "E", "F", "T", " ", "T", "U", "R", "N">>,
       <<" ", "L", "T">>,
       <<"N", "B", "L", "T">>,
       <<"S", "B", "L", "T">>,
       <<"W", "B", "L", "T">>,
       <<"E", "B", "L", "T">>,
       <<"(", "N", "B", "L", "T", ")">>,
       <<"(", "S", "B", "L", "T", ")">>,
       <<"(", "W", "B", "L", "T", ")">>,
       <<"(", "E", "B", "L", "T", ")">>>>) @@
  (TURN_THRU :>
     <<<<" ", "T", "H", "R", "U">>,
       <<" ", "T", "H", "R", "O", "U", "G", "H">>,
       <<"(", "T", "H", "R", "U", ")">>>>) @@
  (TURN_RIGHT :>
     <<<<"R", "I", "G", "H", "T", " ", "T", "U", "R", "N">>,
       <<"B", "R", "T">>,
       <<" ", "R", "T">>>>)

\* the dict indicators of getDirections
directionIndicators ==
  ("WB" :>
     <<<<"W", "B", "-">>,
       <<"W", "B", ",">>,
       <<",", "W", "B">>,
       <<"W", "B", "/">>,
       <<"/", "W", "B">>,
       <<"W", "B", "&">>,
       <<"&", "W", "B">>,
       <<" ", "W", "B">>,
       <<"W", "B", " ">>,
       <<"W", "/", "B">>,
       <<"(", "W", "B">>,
       <<"W", "B", ")">>,
       <<"(", "W", "B", ")">>,
       <<"(", "W", "E", "S", "T", "B", "O", "U", "N", "D", ")">>,
       <<"W", "E", "S", "T", "B", "O", "U", "N", "D">>,
       <<"W", "E", "S", "T", " ">>>>) @@
  ("EB" :>
     <<<<"E", "B", "-">>,
       <<"E", "B", ",">>,
       <<",", "E", "B">>,
       <<"E", "B", "/">>,
       <<"/", "E", "B">>,
       <<"E", "B", "&">>,
       <<"&", "E", "B">>,
       <<" ", "E", "B">>,
       <<"E", "B", " ">>,
       <<"E", "/", "B">>,
       <<"(", "E", "B">>,
       <<"(", "E", "B", ")">>,
       <<"E", "B", ")">>,
       <<"(", "E", "A", "S", "T", "B", "O", "U", "N", "D", ")">>,
       <<"E", "A", "S", "T", "B", "O", "U", "N", "D">>,
       <<"E", "A", "S", "T", " ">>>>) @@
  ("NB" :>
     <<<<"N", "B", "-">>,
       <<"N", "B", ",">>,
       <<",", "N", "B">>,
       <<"N", "B", "/">>,
       <<"/", "N", "B">>,
       <<"N", "B", "&">>,
       <<"&", "N", "B">>,
       <<" ", "N", "B">>,
       <<"N", "B", " ">>,
       <<"N", "/", "B">>,
       <<"(", "N", "B">>,
       <<"N", "B", ")">>,
       <<"(", "N", "O", "R", "T", "H", "B", "O", "U", "N", "D", ")">>,
       <<"N", "O", "R", "T", "H", "B", "O", "U", "N", "D">>,
       <<"N", "O", "R", "T", "H", " ">>>>) @@
  ("SB" :>
     <<<<"S", "B", "-">>,
       <<"S", "B", ",">>,
       <<",", "S", "B">>,
       <<"S", "B", "/">>,
       <<"/", "S", "B">>,
       <<"S", "B", "&">>,
       <<"&", "S", "B">>,
       <<" ", "S", "B">>,
       <<"S", "B", " ">>,
       <<"S", "/", "B">>,
       <<"(", "S", "B">>,
       <<"S", "B", ")">>,
       <<"(", "S", "O", "U", "T", "H", "B", "O", "U", "N", "D", ")">>,
       <<"S", "O", "U", "T", "H", "B", "O", "U", "N", "D">>,
       <<"S", "O", "U", "T", "H", " ">>>>)

\* the labels getDirections answers [] for
ExemptNames ==
  {<<"S", "O", "U", "T", "H", " ", "V", "A", "N", " ", "N", "E", "S", "S">>,
   <<"W", "E", "S", "T", " ", "P", "O", "R", "T", "A", "L">>,
   <<"N", "O", "R", "T", "H", " ", "P", "O", "I", "N", "T">>,
   <<"I", "-", "8", "0", " ", "E", " ", "O", "F", "F", "-", "R", "A", "M", "P">>,
   <<"H", "W", "Y", " ", "1", "0", "1", " ", "S", "O", "U", "T", "H", "B", "O", "U", "N", "D", " ", "R", "A", "M", "P">>}

\* the iteration orders a dict with the keys K can have
ItemOrders(K) ==
  {o \in [1..Cardinality(K) -> K] : \A i, j \in 1..Cardinality(K) : o[i] = o[j] => i = j}

\* the inner loop of groupMovementToTurnType from indicator i on, for the key dir
RECURSIVE TurnIndicatorLoop(_, _, _, _, _)
TurnIndicatorLoop(st, dir, i, name, addRight) ==
  IF i > Len(turnIndicators[dir]) THEN st
  ELSE LET hit == Contains(name, turnIndicators[dir][i])
           st1 == IF hit
                  THEN [st EXCEPT !.result = @ \o dir, !.movadded = 1,
                                  !.thruadded = IF dir = TURN_THRU THEN 1 ELSE @]
                  ELSE st
           st2 == IF dir = TURN_RIGHT /\ st1.thruadded = 1 /\ addRight
                  THEN [st1 EXCEPT !.result = @ \o dir]
                  ELSE st1
       IN TurnIndicatorLoop(st2, dir, i + 1, name, addRight)

\* the inner loop of getDirections for the key dir: append at the first
\* indicator found and break
DirectionKey(result, dir, name) ==
  IF name \notin ExemptNames
     /\ \E i \in 1..Len(directionIndicators[dir]) : Contains(name, directionIndicators[dir][i])
  THEN Append(result, dir)
  ELSE result

Labels ==
  {<<"1", "7", "T", "H", " ", "S", "T", ".", " ", "W", "/", "B", " ", "T", "H", "R", "U">>,
   <<"O", "T", "I", "S", " ", "S", "B", "L", "T">>,
   <<"G", "E", "A", "R", "Y", " ", "E", "B", " ", "R", "T">>,
   <<"W", "E", "S", "T", " ", "P", "O", "R", "T", "A", "L">>}

InitLabel ==
  /\ gMovName \in Labels
  /\ addRightToThru \in BOOLEAN
  /\ turnItems \in ItemOrders({TURN_LEFT, TURN_THRU, TURN_RIGHT})
  /\ dirItems \in ItemOrders({"WB", "EB", "NB", "SB"})
  /\ turnCall = [k |-> 0, result |-> <<>>, thruadded |-> 0, movadded |-> 0]
  /\ dirCall = [k |-> 0, result |-> <<>>]
  /\ IdlePhases
  /\ IdleSelect
  /\ IdleBatch
  /\ IdleParse
  /\ IdleCell
  /\ IdleMain
  /\ IdleFill
  /\ IdleRows

\* one iteration of "for dir, dirIndicators in indicators.items()" of
\* groupMovementToTurnType
TurnTypeKey ==
  /\ gMovName # <<>>
  /\ turnCall.k < Len(turnItems)
  /\ turnCall' = [TurnIndicatorLoop(turnCall, turnItems[turnCall.k + 1], 1, gMovName,
                                    addRightToThru)
                    EXCEPT !.k = turnCall.k + 1]
  /\ UNCHANGED <<gMovName, addRightToThru, turnItems, dirItems, dirCall,
                 phaseVars, selectVars, batchVars, parseVars, cellVars, mainVars, fillVars, rowVars>>

\* one iteration of "for dir, dirIndicators in indicators.items()" of getDirections
DirectionsKey ==
  /\ gMovName # <<>>
  /\ dirCall.k < Len(dirItems)
  /\ dirCall' = [k |-> dirCall.k + 1,
                 result |-> DirectionKey(dirCall.result, dirItems[dirCall.k + 1], gMovName)]
  /\ UNCHANGED <<gMovName, addRightToThru, turnItems, dirItems, turnCall,
                 phaseVars, selectVars, batchVars, parseVars, cellVars, mainVars, fillVars, rowVars>>

NextLabel == TurnTypeKey \/ DirectionsKey

SpecLabel == InitLabel /\ [][NextLabel]_vars

Range(f) == {f[i] : i \in DOMAIN f}

\* C13: for the label "17TH ST. W/B THRU", under every iteration order of the
\* two indicator tables, getDirections returns exactly {WB} and
\* groupMovementToTurnType with addRightToThru=True returns a set holding the
\* THRU turn types and the RIGHT turn types.
C13_ThruLabel ==
  (/\ gMovName = <<"1", "7", "T", "H", " ", "S", "T", ".", " ", "W", "/", "B", " ", "T", "H", "R", "U">>
   /\ addRightToThru
   /\ turnCall.k = Len(turnItems)
   /\ dirCall.k = Len(dirItems)) =>
     /\ Range(dirCall.result) = {"WB"}
     /\ Range(TURN_THRU) \cup Range(TURN_RIGHT) \subseteq Range(turnCall.result)

-----------------------------------------------------------------------------
(* setTimes (getOperationTimes) *)

MaxRowCells == 2

\* s[a:b] of Python for a sequence s
Slice(s, a, b) ==
  LET norm(i) == IF i < 0 THEN (IF Len(s) + i < 0 THEN 0 ELSE Len(s) + i)
                 ELSE IF i > Len(s) THEN Len(s) ELSE i
  IN SubSeq(s, norm(a) + 1, norm(b))

\* s.find(sub): the first index (from 0) where sub starts, -1 when there is none
Find(s, sub) ==
  LET at == {i \in 0..(Len(s) - Len(sub)) : \A j \in 1..Len(sub) : s[i + j] = sub[j]}
  IN IF at = {} THEN -1 ELSE CHOOSE i \in at : \A j \in at : i <= j

\* s.strip()
Strip(s) ==
  LET inked == {i \in 1..Len(s) : s[i] # " "}
  IN IF inked = {} THEN <<>>
     ELSE SubSeq(s, CHOOSE i \in inked : \A j \in inked : i <= j,
                    CHOOSE i \in inked : \A j \in inked : i >= j)

Digits ==
  ("0" :> 0) @@ ("1" :> 1) @@ ("2" :> 2) @@ ("3" :> 3) @@ ("4" :> 4) @@
  ("5" :> 5) @@ ("6" :> 6) @@ ("7" :> 7) @@ ("8" :> 8) @@ ("9" :> 9)

RECURSIVE Decimal(_)
Decimal(d) == IF d = <<>> THEN 0 ELSE 10 * Decimal(SubSeq(d, 1, Len(d) - 1)) + Digits[d[Len(d)]]

\* int(s): surrounding blanks and one sign are accepted, anything else than
\* digits raises ValueError
ParseInt(s) ==
  LET t == Strip(s)
      signed == t # <<>> /\ t[1] \in {"+", "-"}
      d == IF signed THEN Tail(t) ELSE t
  IN IF d = <<>> \/ \E i \in 1..Len(d) : d[i] \notin DOMAIN Digits
     THEN [ok |-> FALSE, val |-> 0]
     ELSE [ok |-> TRUE, val |-> IF signed /\ t[1] = "-" THEN 0 - Decimal(d) ELSE Decimal(d)]

\* dta.Time(hour, minute), in minutes after midnight
DtaTime(h, m) == 60 * h + m

SetStart(st, h, m) ==
  IF st.error # "none" THEN st
  ELSE IF ~h.ok \/ ~m.ok THEN [st EXCEPT !.error = "ValueError"]
  ELSE [st EXCEPT !.startTime = DtaTime(h.val, m.val)]

SetEnd(st, h, m) ==
  IF st.error # "none" THEN st
  ELSE IF ~h.ok \/ ~m.ok THEN [st EXCEPT !.error = "ValueError"]
  ELSE [st EXCEPT !.endTime = DtaTime(h.val, m.val)]

GotStartTime(st) == IF st.error # "none" THEN st ELSE [st EXCEPT !.gotStartTime = TRUE]

\* "hh:mm" on either side of a separator found at stopval: the start is
\* cellValue[:startStop], the end cellValue[endFrom:]
ColonTimes(st, v, startStop, endFrom) ==
  LET startTimeAll == Slice(v, 0, startStop)
      c1 == Find(startTimeAll, <<":">>)
      endTimeAll == Slice(v, endFrom, Len(v))
      c2 == Find(endTimeAll, <<":">>)
  IN SetEnd(SetStart(st, ParseInt(Slice(startTimeAll, 0, c1)),
                         ParseInt(Slice(startTimeAll, c1 + 1, Len(startTimeAll)))),
            ParseInt(Slice(endTimeAll, 0, c2)),
            ParseInt(Slice(endTimeAll, c2 + 1, Len(endTimeAll))))

\* mutant: the first test without its "not ' - ' in cellValue"
PlainDashLoose(v) == Contains(v, <<"-">>) /\ ~Contains(v, <<":">>)

PlainDash(v) ==
  Contains(v, <<"-">>) /\ ~Contains(v, <<":">>) /\ ~Contains(v, <<" ", "-", " ">>)

SpacedDash(v) == Contains(v, <<" ", "-", " ">>) /\ ~Contains(v, <<":">>)

\* "hhmm-hhmm"
PlainDashTimes(st, v) ==
  GotStartTime(SetEnd(SetStart(st, ParseInt(Slice(v, 0, 2)), ParseInt(Slice(v, 2, 4))),
                      ParseInt(Slice(v, 5, 7)), ParseInt(Slice(v, 7, Len(v)))))

\* "hhmm - hhmm", 24 as the end hour meaning 23:59
SpacedDashTimes(st, v) ==
  LET endTime1 == ParseInt(Slice(v, 7, 9))
      endTime2 == ParseInt(Slice(v, 9, Len(v)))
      to2359 == endTime1.ok /\ endTime2.ok /\ endTime1.val = 24
  IN GotStartTime(SetEnd(SetStart(st, ParseInt(Slice(v, 0, 2)), ParseInt(Slice(v, 2, 4))),
                         IF to2359 THEN [ok |-> TRUE, val |-> 23] ELSE endTime1,
                         IF to2359 THEN [ok |-> TRUE, val |-> 59] ELSE endTime2))

\* the if / elif chain that ends the text branch
ColonForms(st, v) ==
  IF st.error # "none" THEN st
  ELSE IF Contains(v, <<"-">>) /\ Contains(v, <<":">>)
  THEN ColonTimes(st, v, Find(v, <<"-">>), Find(v, <<"-">>) + 1)
  ELSE IF Contains(v, <<":">>) /\ Len(v) = 5
  THEN IF ~st.gotStartTime2
       THEN LET set == SetStart(st, ParseInt(Slice(v, 0, 2)), ParseInt(Slice(v, 3, Len(v))))
            IN IF set.error # "none" THEN set ELSE [set EXCEPT !.gotStartTime2 = TRUE]
       ELSE SetEnd(st, ParseInt(Slice(v, 0, 2)), ParseInt(Slice(v, 3, Len(v))))
  ELSE IF Contains(v, <<":">>) /\ Contains(v, <<"T", "O">>)
  THEN ColonTimes(st, v, Find(v, <<"T", "O">>) - 1, Find(v, <<"T", "O">>) + 3)
  ELSE IF Contains(v, <<":">>) /\ Contains(v, <<"t", "o">>)
  THEN ColonTimes(st, v, Find(v, <<"t", "o">>) - 1, Find(v, <<"t", "o">>) + 3)
  ELSE st

\* the branch "elif gotStartTime == False": two ifs that strip cellValue when
\* they apply, then the chain
TextTimes(st, v) ==
  LET plain == PlainDash(v)
      v1 == IF plain THEN Strip(v) ELSE v
      st1 == IF plain THEN PlainDashTimes(st, v1) ELSE st
      spaced == st1.error = "none" /\ SpacedDash(v1)
      v2 == IF spaced THEN Strip(v1) ELSE v1
      st2 == IF spaced THEN SpacedDashTimes(st1, v2) ELSE st1
  IN ColonForms(st2, v2)

\* xlrd.xldate_as_tuple(cellValue, 0)[3:5] for a serial below one day, the
\* serial given in minutes of the day; 1.0 is taken as 0:00 by setTimes itself
SerialTime(cell) == IF cell.days = 1 /\ cell.minutes = 0 THEN 0 ELSE cell.minutes

\* the body of the loop of setTimes for one cell
SetTimesCell(st, cell, weekday) ==
  IF ~cell.float /\ Strip(cell.text) = <<>> THEN st
  ELSE IF ~weekday
  THEN [st EXCEPT !.startTime = 1439, !.endTime = 1439, !.gotStartTime = TRUE]
  ELSE IF cell.float
  THEN IF ~st.gotStartTime
       THEN [st EXCEPT !.startTime = SerialTime(cell), !.gotStartTime = TRUE]
       ELSE [st EXCEPT !.endTime = SerialTime(cell)]
  ELSE IF \/ Contains(cell.text, <<"e", "v", "e", "n", "t">>)
          \/ Contains(cell.text, <<"E", "v", "e", "n", "t">>)
          \/ Contains(cell.text, <<"G", "a", "m", "e">>)
  THEN [st EXCEPT !.startTime = 1439, !.endTime = 1439]
  ELSE IF \/ Contains(cell.text, <<"T", "I", "M", "E", "S">>)
          \/ Contains(cell.text, <<"T", "i", "m", "e", "s">>)
  THEN [st EXCEPT !.hasAllOtherTimes = TRUE, !.startTime = 0, !.endTime = 0,
                  !.gotStartTime = TRUE]
  ELSE IF ~st.gotStartTime THEN TextTimes(st, cell.text)
  ELSE st

Text0700_1900 == [float |-> FALSE, text |-> <<"0", "7", "0", "0", "-", "1", "9", "0", "0">>]

Text0700__1900 == [float |-> FALSE, text |-> <<"0", "7", "0", "0", " ", "-", " ", "1", "9", "0", "0">>]

Text0700c1900 == [float |-> FALSE, text |-> <<"0", "7", ":", "0", "0", "-", "1", "9", ":", "0", "0">>]

Text0700 == [float |-> FALSE, text |-> <<"0", "7", ":", "0", "0">>]

Text1900 == [float |-> FALSE, text |-> <<"1", "9", ":", "0", "0">>]

Text0700TO1900 == [float |-> FALSE, text |-> <<"0", "7", ":", "0", "0", " ", "T", "O", " ", "1", "9", ":", "0", "0">>]

Text0700to1900 == [float |-> FALSE, text |-> <<"0", "7", ":", "0", "0", " ", "t", "o", " ", "1", "9", ":", "0", "0">>]

Serial075 == [float |-> TRUE, days |-> 0, minutes |-> 1080]

\* what a cell of the row can hold
CellValues ==
  {Text0700_1900, Text0700__1900, Text0700c1900, Text0700, Text1900, Text0700TO1900,
   Text0700to1900, Serial075,
   [float |-> TRUE, days |-> 1, minutes |-> 0],
   [float |-> FALSE, text |-> <<"0", "7", "0", "0", " ", "-", " ", "2", "4", "0", "0">>],
   [float |-> FALSE, text |-> <<"A", "L", "L", " ", "O", "T", "H", "E", "R", " ", "T", "I", "M", "E", "S">>],
   [float |-> FALSE, text |-> <<"G", "a", "m", "e">>],
   [float |-> FALSE, text |-> <<" ", " ">>]}

InitCell ==
  /\ \E n \in 1..MaxRowCells : cellRow \in [1..n -> CellValues]
  /\ dayCells = <<>>
  /\ isWeekdayPlan \in BOOLEAN
  /\ curColumn = 0
  /\ opTimes = [startTime |-> 1439, endTime |-> 1439, gotStartTime |-> FALSE,
                gotStartTime2 |-> FALSE, hasAllOtherTimes |-> FALSE, error |-> "none"]
  /\ IdlePhases
  /\ IdleSelect
  /\ IdleBatch
  /\ IdleParse
  /\ IdleLabel
  /\ IdleMain
  /\ IdleFill
  /\ IdleRows

\* one iteration of "for curColumn in range(...)"
SetTimesColumn ==
  /\ opTimes.error = "none"
  /\ curColumn < Len(cellRow)
  /\ opTimes' = SetTimesCell(opTimes, cellRow[curColumn + 1], isWeekdayPlan)
  /\ curColumn' = curColumn + 1
  /\ UNCHANGED <<cellRow, dayCells, isWeekdayPlan, phaseVars, selectVars, batchVars, parseVars,
                 labelVars, mainVars, fillVars, rowVars>>

NextCell == SetTimesColumn

SpecCell == InitCell /\ [][NextCell]_vars

\* checkForWeekdayPlan on the two day cells, str(...).strip() applied
checkForWeekdayPlan(days) ==
  LET ThursValue == Strip(days[1])
      FriValue == Strip(days[2])
  IN IF ThursValue = <<"X">> /\ FriValue = <<"X">> THEN TRUE
     ELSE IF ThursValue = <<"x">> /\ FriValue = <<"x">> THEN TRUE
     ELSE FALSE

\* what a day cell can hold
DayValues == {<<"X">>, <<"x">>, <<" ", "X", " ">>, <<"x", " ">>, <<>>, <<"Y">>}

InitWeekday ==
  /\ \E n \in 1..MaxRowCells : cellRow \in [1..n -> CellValues]
  /\ dayCells \in DayValues \X DayValues
  /\ isWeekdayPlan = FALSE
  /\ curColumn = 0
  /\ opTimes = [startTime |-> 1439, endTime |-> 1439, gotStartTime |-> FALSE,
                gotStartTime2 |-> FALSE, hasAllOtherTimes |-> FALSE, error |-> "none"]
  /\ IdlePhases
  /\ IdleSelect
  /\ IdleBatch
  /\ IdleParse
  /\ IdleLabel
  /\ IdleMain
  /\ IdleFill
  /\ IdleRows

NonBlank(cell) == cell.float \/ Strip(cell.text) # <<>>

\* one iteration of the loop of setTimes, checkForWeekdayPlan called for a
\* cell that is not blank
SetTimesColumnOfDays ==
  /\ dayCells # <<>>
  /\ opTimes.error = "none"
  /\ curColumn < Len(cellRow)
  /\ LET cell == cellRow[curColumn + 1]
         weekday == IF NonBlank(cell) THEN checkForWeekdayPlan(dayCells)
                    ELSE isWeekdayPlan
     IN /\ isWeekdayPlan' = weekday
        /\ opTimes' = SetTimesCell(opTimes, cell, weekday)
  /\ curColumn' = curColumn + 1
  /\ UNCHANGED <<cellRow, dayCells, phaseVars, selectVars, batchVars, parseVars,
                 labelVars, mainVars, fillVars, rowVars>>

NextWeekday == SetTimesColumnOfDays

SpecWeekday == InitWeekday /\ [][NextWeekday]_vars

\* a day cell that is "X" in either case once stripped
MarkedX(cell) == Strip(cell) \in {<<"X">>, <<"x">>}

\* the check has been made for the row
WeekdayChecked ==
  /\ dayCells # <<>>
  /\ \E j \in 1..curColumn : NonBlank(cellRow[j])

\* C26: checkForWeekdayPlan treats a row as weekday-active exactly when the
\* two cells three and two columns left of the cycle column both equal "X"
\* compared case-insensitively, the mixed-case pairs included.
C26_CaseInsensitiveX ==
  WeekdayChecked => (isWeekdayPlan <=> (MarkedX(dayCells[1]) /\ MarkedX(dayCells[2])))

SetTimesDone == opTimes.error # "idle" /\ (opTimes.error # "none" \/ curColumn = Len(cellRow))

\* C14: for a weekday-active row, "0700-1900", "0700 - 1900", "07:00-19:00",
\* the two cells "07:00" then "19:00", "07:00 TO 19:00" and "07:00 to 19:00"
\* each give start 07:00 and end 19:00, and the date serial 0.75 gives 18:00.
C14_ClockForms ==
  (SetTimesDone /\ isWeekdayPlan) =>
     /\ cellRow \in {<<Text0700_1900>>, <<Text0700__1900>>, <<Text0700c1900>>,
                     <<Text0700, Text1900>>, <<Text0700TO1900>>, <<Text0700to1900>>}
          => (opTimes.error = "none" /\ opTimes.startTime = 420 /\ opTimes.endTime = 1140)
     /\ cellRow = <<Serial075>> => (opTimes.error = "none" /\ opTimes.startTime = 1080)

\* the row "0700 - 1900" read to its end
C14_Witness ==
  /\ SetTimesDone
  /\ isWeekdayPlan
  /\ cellRow = <<Text0700__1900>>
  /\ opTimes.startTime = 420
  /\ opTimes.endTime = 1140

-----------------------------------------------------------------------------
(* The start of __main__ *)

MaxArgs == 7

MaxMainFiles == 1

\* mutant: the count taken without the script name
TooFewArgumentsBare(n) == n < 4

\* "if len(sys.argv) < 6", sys.argv[0] being the script name
TooFewArguments(n) == n + 1 < 6

InitMain ==
  /\ argc \in 0..MaxArgs
  /\ mainPc = "start"
  /\ exitCode = -1
  /\ printed = ""
  /\ overrides = FALSE
  /\ IdlePhases
  /\ IdleSelect
  /\ IdleBatch
  /\ IdleParse
  /\ IdleLabel
  /\ IdleCell
  /\ IdleFill
  /\ IdleRows

\* print USAGE; sys.exit(2)
Usage ==
  /\ mainPc = "start"
  /\ TooFewArguments(argc)
  /\ printed' = "USAGE"
  /\ exitCode' = 2
  /\ mainPc' = "exited"
  /\ UNCHANGED <<argc, overrides, phaseVars, selectVars, batchVars, parseVars, labelVars,
                 cellVars, fillVars, rowVars>>

\* sys.argv[1] to sys.argv[5] are taken, sys.argv[6:] when there are 7 or more
ReadArguments ==
  /\ mainPc = "start"
  /\ ~TooFewArguments(argc)
  /\ START_TIME' \in {420, 1140}
  /\ END_TIME' = 1140
  /\ overrides' = (argc + 1 >= 7)
  /\ mainPc' = "arguments"
  /\ UNCHANGED <<argc, exitCode, printed, pos, mappedNodes, cardNodes, cardsDone,
                 cardsWithMove, allPlansSet, allMoreMatchesSet, last, run,
                 phaseVars, selectVars, parseVars, labelVars, cellVars, fillVars, rowVars>>

\* scenario.read and net.read, the overrides, the registries: the batch loop
\* can start
ReadNetwork ==
  /\ mainPc = "arguments"
  /\ mainPc' = "network"
  /\ run' = "running"
  /\ UNCHANGED <<argc, exitCode, printed, overrides, START_TIME, END_TIME, pos,
                 mappedNodes, cardNodes, cardsDone, cardsWithMove, allPlansSet,
                 allMoreMatchesSet, last, phaseVars, selectVars, parseVars, labelVars,
                 cellVars, fillVars, rowVars>>

NextMain ==
  Usage \/ ReadArguments \/ ReadNetwork \/ ProcessFile(BatchCards, MaxMainFiles)
    \/ EndOfDirectory

SpecMain == InitMain /\ [][NextMain]_vars

UsageExit ==
  /\ mainPc = "exited"
  /\ printed = "USAGE"
  /\ exitCode = 2
  /\ run = "idle"
  /\ pos = 0

\* C15: started with fewer than 6 positional arguments (0 to 5 after the script
\* name), the script prints the usage message and exits with code 2 without
\* reading any network or card.
C15_UsageBelowSix ==
  (mainPc \notin {"idle", "start"} /\ argc <= 5) => UsageExit

\* C15 as the code has it: 0 to 4 arguments after the script name give the
\* usage message and exit code 2 with no network and no card read; 5 or more
\* do not.
C15_UsageBelowFive ==
  mainPc \notin {"idle", "start"} => (UsageExit <=> argc <= 4)

\* the script exited on four arguments
C15_Witness ==
  argc = 4 /\ UsageExit

-----------------------------------------------------------------------------
(* fillPhaseInfo *)

MaxRowLen == 4

\* the rows fillPhaseInfo is called with: getPhasingData has dropped the rows
\* that are blank all over
FillRows(n) == {r \in [1..n -> {"", "G", "Y", "R"}] : \E j \in 1..n : r[j] # ""}

\* mutant: a first loop that fills nothing
FirstLoopBodySkip(row, i) == row

\* "if phaseInfo[i] == '' and phaseInfo[i - 1] != '': phaseInfo[i] = phaseInfo[i - 1]"
FirstLoopBody(row, i) ==
  IF row[i + 1] = "" /\ row[i] # "" THEN [row EXCEPT ![i + 1] = row[i]] ELSE row

\* "if phaseInfo[i] == '' and phaseInfo[i + 1] != ''": the second operand is
\* read only for a blank phaseInfo[i], and past the end it raises IndexError
SecondLoopRaises(row, i) == row[i + 1] = "" /\ i + 1 >= Len(row)

SecondLoopBody(row, i) ==
  IF row[i + 1] = "" /\ row[i + 2] # "" THEN [row EXCEPT ![i + 1] = row[i + 2]] ELSE row

InitFill ==
  /\ \E n \in 1..MaxRowLen : phaseInfo \in FillRows(n)
  /\ fillCall = [loop |-> "first", i |-> 1, call |-> 1]
  /\ fillHistory = <<phaseInfo>>
  /\ IdlePhases
  /\ IdleSelect
  /\ IdleBatch
  /\ IdleParse
  /\ IdleLabel
  /\ IdleCell
  /\ IdleMain
  /\ IdleRows

\* one iteration of "for i in range(1, len(phaseInfo))"
FirstLoop ==
  /\ fillCall.loop = "first"
  /\ fillCall.i < Len(phaseInfo)
  /\ phaseInfo' = FirstLoopBody(phaseInfo, fillCall.i)
  /\ fillCall' = [fillCall EXCEPT !.i = @ + 1]
  /\ UNCHANGED <<fillHistory, phaseVars, selectVars, batchVars, parseVars, labelVars,
                 cellVars, mainVars, rowVars>>

\* the first range is exhausted: "for i in range(len(phaseInfo) - 1, -1, -1)"
SecondLoopStart ==
  /\ fillCall.loop = "first"
  /\ fillCall.i >= Len(phaseInfo)
  /\ fillCall' = [fillCall EXCEPT !.loop = "second", !.i = Len(phaseInfo) - 1]
  /\ UNCHANGED <<phaseInfo, fillHistory, phaseVars, selectVars, batchVars, parseVars,
                 labelVars, cellVars, mainVars, rowVars>>

\* one iteration of the second loop
SecondLoop ==
  /\ fillCall.loop = "second"
  /\ fillCall.i >= 0
  /\ IF SecondLoopRaises(phaseInfo, fillCall.i)
     THEN /\ fillCall' = [fillCall EXCEPT !.loop = "IndexError"]
          /\ UNCHANGED phaseInfo
     ELSE /\ phaseInfo' = SecondLoopBody(phaseInfo, fillCall.i)
          /\ fillCall' = [fillCall EXCEPT !.i = @ - 1]
  /\ UNCHANGED <<fillHistory, phaseVars, selectVars, batchVars, parseVars, labelVars,
                 cellVars, mainVars, rowVars>>

\* the second range is exhausted: the call returns
FillReturn ==
  /\ fillCall.loop = "second"
  /\ fillCall.i < 0
  /\ fillCall' = [fillCall EXCEPT !.loop = "returned"]
  /\ fillHistory' = Append(fillHistory, phaseInfo)
  /\ UNCHANGED <<phaseInfo, phaseVars, selectVars, batchVars, parseVars, labelVars,
                 cellVars, mainVars, rowVars>>

\* fillPhaseInfo called on the list once more
FillAgain ==
  /\ fillCall.loop = "returned"
  /\ fillCall.call = 1
  /\ fillCall' = [loop |-> "first", i |-> 1, call |-> 2]
  /\ UNCHANGED <<phaseInfo, fillHistory, phaseVars, selectVars, batchVars, parseVars,
                 labelVars, cellVars, mainVars, rowVars>>

NextFill == FirstLoop \/ SecondLoopStart \/ SecondLoop \/ FillReturn \/ FillAgain

SpecFill == InitFill /\ [][NextFill]_vars

\* what the claim says cell j of the row read becomes
NearestState(read, j) ==
  IF read[j] # "" THEN read[j]
  ELSE IF \E k \in 1..(j - 1) : read[k] # ""
  THEN read[CHOOSE k \in 1..(j - 1) : read[k] # "" /\ \A m \in (k + 1)..(j - 1) : read[m] = ""]
  ELSE read[CHOOSE k \in (j + 1)..Len(read) :
              read[k] # "" /\ \A m \in (j + 1)..(k - 1) : read[m] = ""]

\* C25: for every row with at least one non-blank cell fillPhaseInfo ends
\* without an index error, leaves every non-blank cell unchanged, leaves no
\* blank cell, gives each blank cell the value of the nearest non-blank cell to
\* its left if there is one and else of the nearest to its right; a second
\* application changes nothing.
C25_FillNearest ==
  fillCall.loop # "idle" =>
     /\ fillCall.loop # "IndexError"
     /\ \A c \in 2..Len(fillHistory) :
          /\ Len(fillHistory[c]) = Len(fillHistory[1])
          /\ \A j \in 1..Len(fillHistory[1]) :
               fillHistory[c][j] = NearestState(fillHistory[1], j)

\* both calls have returned on a row with blanks on both sides of its states
C25_Witness ==
  /\ fillCall.loop = "returned"
  /\ fillCall.call = 2
  /\ Len(fillHistory) = 3
  /\ fillHistory[1] = <<"", "G", "", "Y">>
  /\ fillHistory[3] = <<"G", "G", "G", "Y">>

-----------------------------------------------------------------------------
(* getSignalIntervalData and getOperationTimes, row by row *)

MaxTimingRows == 2
MaxOpRows == 1

\* str(n) of a whole number
RECURSIVE ToChars(_)
ToChars(n) ==
  IF n < 0 THEN <<"-">> \o ToChars(0 - n)
  ELSE IF n < 10 THEN <<CHOOSE c \in DOMAIN Digits : Digits[c] = n>>
  ELSE ToChars(n \div 10) \o ToChars(n % 10)

\* float(s): surrounding blanks, one sign and one point are accepted, at
\* least one digit is needed, anything else raises ValueError; the value is
\* kept to its whole part
Float(s) ==
  LET t == Strip(s)
      signed == t # <<>> /\ t[1] \in {"+", "-"}
      d == IF signed THEN Tail(t) ELSE t
      points == {i \in 1..Len(d) : d[i] = "."}
      whole == IF points = {} THEN d ELSE SubSeq(d, 1, (CHOOSE i \in points : TRUE) - 1)
  IN IF \/ Cardinality(points) > 1
        \/ \A i \in 1..Len(d) : d[i] = "."
        \/ \E i \in 1..Len(d) : d[i] \notin DOMAIN Digits \cup {"."}
     THEN [ok |-> FALSE, val |-> 0]
     ELSE [ok |-> TRUE, val |-> IF signed /\ t[1] = "-" THEN 0 - Decimal(whole) ELSE Decimal(whole)]

\* s.endswith(suffix)
EndsWith(s, suffix) ==
  Len(s) >= Len(suffix) /\ SubSeq(s, Len(s) - Len(suffix) + 1, Len(s)) = suffix

\* str(value) of a cell: a number cell is a float
StrCell(cell) == IF cell.float THEN ToChars(cell.val) \o <<".", "0">> ELSE cell.text

\* "strCso = str(int(float(row[0])))", and "str(row[0])" on ValueError
StrCso(cell) ==
  IF cell.float THEN ToChars(cell.val)
  ELSE IF Float(cell.text).ok THEN ToChars(Float(cell.text).val)
  ELSE cell.text

Number(n) == [float |-> TRUE, val |-> n]
Text(t) == [float |-> FALSE, text |-> t]

\* what the cells of a timing row hold
CsoCells ==
  {Number(111), Number(211), Text(<<"1", "1", "-">>), Text(<<"1", "-", "-">>),
   Text(<<"2", "1", "-", "-">>), Text(<<"F", "R", "E", "E">>)}

CycleCells == {Number(90), Text(<<"-", "-">>), Text(<<"-">>), Text(<<"n", "a">>)}

OffsetCells == {Number(12), Text(<<"n", "a">>)}

\* the list "row" of a timing row: the cells left of colPhaseData whose
\* str() is not empty, the first of them not blank
TimingRows ==
  {<<c>> : c \in CsoCells}
    \cup {<<c, y>> : c \in CsoCells, y \in CycleCells}
    \cup {<<c, y, o>> : c \in CsoCells, y \in CycleCells, o \in OffsetCells}
    \cup {<<c, y, o, o>> : c \in {Number(111)}, y \in {Number(90)}, o \in {Number(12)}}

\* the cells from colPhaseData on, up to the first blank one
IntervalCells == {<<Number(10), Number(20)>>, <<Number(10), Text(<<"G">>)>>}

\* ExcelSignalTiming()
ExcelSignalTiming ==
  [cso |-> <<"-", "1">>, cycle |-> [kind |-> "default", val |-> -1], offset |-> 0,
   isActuated |-> FALSE, startTime |-> 1439, endTime |-> 1439, times |-> <<>>]

CycleValue(v) == [kind |-> "float", val |-> v]
CycleNone == [kind |-> "None", val |-> 0]

Recorded(t) == [raised |-> "none", timing |-> t]
RaisedAt(e, line) == [raised |-> e, line |-> line]

\* "elif strCso.endswith("--") and len(strCso) == 4 and strCycle == "--"":
\* float(strCycle) is called outside any try
DoubleDash(t, strCycle) ==
  IF Float(strCycle).ok
  THEN Recorded([t EXCEPT !.offset = 0, !.cycle = CycleValue(Float(strCycle).val)])
  ELSE RaisedAt("ValueError", 767)

\* "if strCso.endswith("-") and len(strCso) == 3 and strCycle != "--""
SingleDash(t, strCso, strCycle) ==
  IF EndsWith(strCso, <<"-", "-">>)
  THEN Recorded([t EXCEPT !.offset = 0, !.cycle = CycleValue(0), !.isActuated = TRUE])
  ELSE IF Float(strCycle).ok
       THEN Recorded([t EXCEPT !.offset = 0, !.cycle = CycleValue(Float(strCycle).val)])
       ELSE RaisedAt("ValueError", 764)

\* the last branch, the only one inside "try ... except ValueError"
PlainCso(t, strCycle, strOffset) ==
  LET dashCycle == Contains(strCycle, <<"-">>)
      dashOffset == Contains(strOffset, <<"-">>)
  IN IF ~dashCycle /\ ~Float(strCycle).ok THEN RaisedAt("ParsingCardError", 779)
     ELSE IF ~dashOffset /\ ~Float(strOffset).ok THEN RaisedAt("ParsingCardError", 779)
     ELSE Recorded([t EXCEPT
            !.cycle = IF dashCycle THEN CycleNone ELSE CycleValue(Float(strCycle).val),
            !.isActuated = IF dashCycle THEN TRUE ELSE @,
            !.offset = IF dashOffset THEN 0 ELSE Float(strOffset).val])

\* the cso, cycle and offset of one row
CsoCycleOffset(strCso, strCycle, strOffset) ==
  LET t == [ExcelSignalTiming EXCEPT !.cso = strCso]
  IN IF EndsWith(strCso, <<"-">>) /\ Len(strCso) = 3 /\ strCycle # <<"-", "-">>
     THEN SingleDash(t, strCso, strCycle)
     ELSE IF EndsWith(strCso, <<"-", "-">>) /\ Len(strCso) = 4 /\ strCycle = <<"-", "-">>
     THEN DoubleDash(t, strCycle)
     ELSE IF strCso = <<"F", "R", "E", "E">> \/ strCso = <<"f", "r", "e", "e">>
     THEN Recorded([t EXCEPT !.isActuated = TRUE])
     ELSE PlainCso(t, strCycle, strOffset)

StrCycle(row) == IF Len(row) >= 2 THEN StrCell(row[2]) ELSE <<"-">>
StrOffset(row) == IF Len(row) = 3 THEN StrCell(row[3]) ELSE <<"-">>

\* one iteration of the loop of getSignalIntervalData on a row that is not blank
TimingOfRow(row, cells) ==
  IF Len(row) > 3 THEN RaisedAt("ParsingCardError", 755)
  ELSE LET r == CsoCycleOffset(StrCso(row[1]), StrCycle(row), StrOffset(row))
       IN IF r.raised # "none" THEN r
          ELSE IF \E j \in 1..Len(cells) : ~cells[j].float THEN RaisedAt("ParsingCardError", 796)
          ELSE Recorded([r.timing EXCEPT !.times = [j \in 1..Len(cells) |-> cells[j].val]])

\* "signalData.signalTiming[signalTiming.cso] = signalTiming": a key already
\* there keeps its place, a new key lands where its hash puts it
Stored(table, t) ==
  IF \E i \in 1..Len(table) : table[i].cso = t.cso
  THEN {[i \in 1..Len(table) |-> IF table[i].cso = t.cso THEN t ELSE table[i]]}
  ELSE {SubSeq(table, 1, k) \o <<t>> \o SubSeq(table, k + 1, Len(table)) : k \in 0..Len(table)}

InitRows ==
  /\ timingTable = <<>>
  /\ lastRead = [raised |-> "none"]
  /\ opTarget = [target |-> "none"]
  /\ rowPc = "intervals"
  /\ rowsRead = 0
  /\ IdlePhases
  /\ IdleSelect
  /\ IdleBatch
  /\ IdleParse
  /\ IdleLabel
  /\ IdleCell
  /\ IdleMain
  /\ IdleFill

ReadTimingRow ==
  /\ rowPc = "intervals"
  /\ rowsRead < MaxTimingRows
  /\ \E row \in TimingRows, cells \in IntervalCells :
       LET r == TimingOfRow(row, cells)
       IN /\ lastRead' = [raised |-> r.raised, row |-> row,
                          strCso |-> StrCso(row[1]), strCycle |-> StrCycle(row),
                          timing |-> IF r.raised = "none" THEN r.timing ELSE ExcelSignalTiming,
                          line |-> IF r.raised = "none" THEN 0 ELSE r.line]
          /\ IF r.raised = "none"
             THEN /\ timingTable' \in Stored(timingTable, r.timing)
                  /\ rowPc' = rowPc
             ELSE /\ timingTable' = timingTable
                  /\ rowPc' = r.raised
  /\ rowsRead' = rowsRead + 1
  /\ UNCHANGED <<opTarget, phaseVars, selectVars, batchVars, parseVars,
                 labelVars, cellVars, mainVars, fillVars>>

\* the loop of getSignalIntervalData ends, getOperationTimes is called
EndOfIntervals ==
  /\ rowPc = "intervals"
  /\ rowPc' = "operations"
  /\ rowsRead' = 0
  /\ UNCHANGED <<timingTable, lastRead, opTarget, phaseVars, selectVars, batchVars,
                 parseVars, labelVars, cellVars, mainVars, fillVars>>

\* the list "cso" of a row of the operation times section: the cells right
\* of the CYCLE column that are not blank, numbers written as integers
CsoLists ==
  {<<>>, <<<<"1">>, <<"1">>, <<"1">>>>, <<<<"2">>, <<"1">>, <<"1">>>>, <<<<"3">>>>,
   <<<<"F", "R", "E", "E">>>>, <<<<"-">>, <<"-">>, <<"-">>>>}

\* the first character of the cell eleven columns left of the CYCLE column
TimeNames == {<<"P">>, <<>>}

RECURSIVE Join(_)
Join(cso) == IF cso = <<>> THEN <<>> ELSE Head(cso) \o Join(Tail(cso))

\* "for signalTimes in signalData.signalTiming: if <test>: strCso =
\* signalTimes", without a break: the last key that passes wins ("" for none)
LastKey(table, Test(_)) ==
  LET hits == {i \in 1..Len(table) : Test(table[i].cso)}
  IN IF hits = {} THEN <<>> ELSE table[CHOOSE i \in hits : \A j \in hits : i >= j].cso

\* the correction for the codes FREE and ---: both branches of the "if"
\* inside the loop assign strCso
FreeKey(table) ==
  LET any(key) == Slice(key, 0, 1) = <<"1">> \/ Slice(key, 0, 1) # <<"1">>
  IN LastKey(table, any)

\* the period a row of the operation times section is applied to:
\* "continue" for a row that is skipped, "error" for one that is logged
MatchCSO(table, cso, timename) ==
  LET strCsoSub == Join(Slice(cso, 0, 1))
      first(key) == Slice(key, 0, 1) = strCsoSub
  IN IF Join(cso) = <<>> THEN [target |-> "continue", key |-> <<>>]
     ELSE IF LastKey(table, first) # <<>>
     THEN [target |-> "setTimes", key |-> LastKey(table, first)]
     ELSE IF strCsoSub[1] = "F" \/ strCsoSub[1] = "-"
     THEN IF FreeKey(table) # <<>> THEN [target |-> "setTimes", key |-> FreeKey(table)]
          ELSE [target |-> "error", key |-> <<>>]
     ELSE IF Slice(Strip(timename), 0, 1) = <<"P">> THEN [target |-> "continue", key |-> <<>>]
     ELSE [target |-> "error", key |-> <<>>]

\* the time cells of the row, as setTimes reads them on a weekday row
RowTimes == {<<Text0700_1900>>}

\* one iteration of the loop over the rows below the CYCLE keyword
OperationRow ==
  /\ rowPc = "operations"
  /\ rowsRead < MaxOpRows
  /\ \E cso \in CsoLists, timename \in TimeNames, cells \in RowTimes :
       LET m == MatchCSO(timingTable, cso, timename)
           st == SetTimesCell([startTime |-> 1439, endTime |-> 1439, gotStartTime |-> FALSE,
                               gotStartTime2 |-> FALSE, hasAllOtherTimes |-> FALSE,
                               error |-> "none"], cells[1], TRUE)
       IN /\ opTarget' = [target |-> m.target, key |-> m.key, cso |-> cso,
                          keys |-> [i \in 1..Len(timingTable) |-> timingTable[i].cso]]
          /\ timingTable' =
               IF m.target # "setTimes" THEN timingTable
               ELSE [i \in 1..Len(timingTable) |->
                       IF timingTable[i].cso = m.key
                       THEN [timingTable[i] EXCEPT !.startTime = st.startTime,
                                                   !.endTime = st.endTime]
                       ELSE timingTable[i]]
  /\ rowsRead' = rowsRead + 1
  /\ UNCHANGED <<lastRead, rowPc, phaseVars, selectVars, batchVars, parseVars,
                 labelVars, cellVars, mainVars, fillVars>>

NextRows == ReadTimingRow \/ EndOfIntervals \/ OperationRow

SpecRows == InitRows /\ [][NextRows]_vars

\* a row of the operation times section whose code starts with F or - and
\* whose first cell is the first character of no key
FreeRow ==
  /\ rowPc = "operations"
  /\ opTarget.target \in {"setTimes", "error"}
  /\ opTarget.cso[1][1] \in {"F", "-"}
  /\ \A i \in 1..Len(opTarget.keys) : Slice(opTarget.keys[i], 0, 1) # opTarget.cso[1]

\* C22: a row whose code starts with F or - and matches no period by first
\* character is applied to a period whose code begins with 1 whenever the
\* card has one, and to the last period iterated only when it has none.
C22_FreeRowToFirstOne ==
  FreeRow =>
    IF \E i \in 1..Len(opTarget.keys) : Slice(opTarget.keys[i], 0, 1) = <<"1">>
    THEN opTarget.target = "setTimes" /\ Slice(opTarget.key, 0, 1) = <<"1">>
    ELSE opTarget.keys # <<>> =>
           opTarget.target = "setTimes" /\ opTarget.key = opTarget.keys[Len(opTarget.keys)]

\* a cell that is neither a number nor a dash marker
Unconvertible(cell) == ~cell.float /\ ~Float(cell.text).ok /\ ~Contains(cell.text, <<"-">>)

\* a timing row has been read whose cycle or offset cell does not convert
UnconvertibleRow ==
  /\ lastRead.raised \notin {"idle"}
  /\ rowsRead > 0
  /\ rowPc # "operations"
  /\ Len(lastRead.row) \in 2..3
  /\ \E j \in 2..Len(lastRead.row) : Unconvertible(lastRead.row[j])

\* C23: whenever a cycle or offset cell of a timing row cannot be converted
\* to a number, getSignalIntervalData raises ParsingCardError, whatever the
\* shape of the CSO code; no other exception type escapes.
C23_UnconvertibleRaisesParsingCardError ==
  /\ UnconvertibleRow => lastRead.raised = "ParsingCardError"
  /\ rowPc \in {"intervals", "operations", "ParsingCardError"}

\* a timing row has been read whose code has four characters and ends in a
\* double dash, and whose cycle cell is "--"
DoubleDashRow ==
  /\ rowPc # "operations"
  /\ rowsRead > 0
  /\ Len(lastRead.row) <= 3
  /\ Len(lastRead.strCso) = 4
  /\ EndsWith(lastRead.strCso, <<"-", "-">>)
  /\ Len(lastRead.row) >= 2
  /\ lastRead.strCycle = <<"-", "-">>

\* C24: a timing row whose code ends in a double dash (length 4) and whose
\* cycle cell is "--" is recorded with offset 0, cycle unset and actuated,
\* and nothing is raised.
C24_DoubleDashRecorded ==
  DoubleDashRow =>
    /\ lastRead.raised = "none"
    /\ lastRead.timing.offset = 0
    /\ lastRead.timing.cycle.kind \in {"None", "default"}
    /\ lastRead.timing.isActuated

=============================================================================
